---- MODULE Spec2Model ----
(***************************************************************************)
(* Model of the comet compiler core: the schema parser (gen/parser.go),    *)
(* the type mapper (core/utils.go), the three dialect drivers (drivers/)   *)
(* and the query execution facade (core query executor).                   *)
(*                                                                         *)
(* Go strings are modelled as sequences of one-character strings, so that  *)
(* trimming, splitting, regular-expression matching and formatting are     *)
(* computed character by character as the library routines compute them.   *)
(***************************************************************************)
EXTENDS Integers, Sequences, FiniteSets, TLC

VARIABLES
    query,      \* QueryExecutor.query: the builder's accumulated *Query
    GlobalDB,   \* core.GlobalDB: <<>> is nil, <<db>> a configured *DB
    call,       \* the most recent call on the facade or a driver, and its result
    executed,   \* the number of terminal operations the QueryExecutor has run
    fs,         \* the schema files on disk: file name -> sequence of lines
    parsers,    \* the Parser values created so far: sequence of Parser.schema.Models
    parsed,     \* the ParseFile calls made so far, each with what it returned
    ddl,        \* the most recent DDL generation call and its result
    running     \* the ParseFile calls of concurrent callers: caller -> its position

qvars == <<query, GlobalDB, call, executed>>
pvars == <<fs, parsers, parsed, ddl, running>>
vars == <<query, GlobalDB, call, executed, fs, parsers, parsed, ddl, running>>

(***************************************************************************)
(* Strings: the parts of Go's strings, unicode and fmt packages the code   *)
(* uses.                                                                   *)
(***************************************************************************)
Lower == <<"a","b","c","d","e","f","g","h","i","j","k","l","m","n","o","p","q","r","s","t","u","v","w","x","y","z">>
Upper == <<"A","B","C","D","E","F","G","H","I","J","K","L","M","N","O","P","Q","R","S","T","U","V","W","X","Y","Z">>
Digits == <<"0","1","2","3","4","5","6","7","8","9">>

IsUpper(c) == \E i \in 1..Len(Upper) : Upper[i] = c
IsLower(c) == \E i \in 1..Len(Lower) : Lower[i] = c
IsDigit(c) == \E i \in 1..Len(Digits) : Digits[i] = c
ToLowerRune(c) == IF IsUpper(c) THEN Lower[CHOOSE i \in 1..Len(Upper) : Upper[i] = c] ELSE c
ToUpperRune(c) == IF IsLower(c) THEN Upper[CHOOSE i \in 1..Len(Lower) : Lower[i] = c] ELSE c
\* unicode.IsSpace, on the characters the inputs use
IsSpace(c) == c \in {" ", "\t"}
\* the regular expression class \w
IsWord(c) == IsUpper(c) \/ IsLower(c) \/ IsDigit(c) \/ c = "_"

ToUpper(s) == [i \in 1..Len(s) |-> ToUpperRune(s[i])]

HasPrefix(s, p) == Len(s) >= Len(p) /\ SubSeq(s, 1, Len(p)) = p
HasSuffix(s, p) == Len(s) >= Len(p) /\ SubSeq(s, Len(s) - Len(p) + 1, Len(s)) = p
TrimPrefix(s, p) == IF HasPrefix(s, p) THEN SubSeq(s, Len(p) + 1, Len(s)) ELSE s
TrimSuffix(s, p) == IF HasSuffix(s, p) THEN SubSeq(s, 1, Len(s) - Len(p)) ELSE s
\* does s hold p at position i
HasAt(s, i, p) == i >= 1 /\ i + Len(p) - 1 <= Len(s) /\ SubSeq(s, i, i + Len(p) - 1) = p
Contains(s, p) == \E i \in 1..(Len(s) + 1) : HasAt(s, i, p)

\* strings.Trim(s, cutset): cutset is a set of characters
TrimLeftSet(s, cut) ==
    LET keep == {i \in 1..Len(s) : s[i] \notin cut}
    IN  IF keep = {} THEN <<>>
        ELSE SubSeq(s, CHOOSE i \in keep : \A j \in keep : i <= j, Len(s))
TrimRightSet(s, cut) ==
    LET keep == {i \in 1..Len(s) : s[i] \notin cut}
    IN  IF keep = {} THEN <<>>
        ELSE SubSeq(s, 1, CHOOSE i \in keep : \A j \in keep : i >= j)
Trim(s, cut) == TrimRightSet(TrimLeftSet(s, cut), cut)
TrimSpace(s) == Trim(s, {" ", "\t"})

\* strings.Join(parts, sep)
RECURSIVE Join(_, _)
Join(parts, sep) ==
    IF Len(parts) = 0 THEN <<>>
    ELSE IF Len(parts) = 1 THEN parts[1]
    ELSE parts[1] \o sep \o Join(Tail(parts), sep)

\* the least element of a set of positions, 0 for the empty set
FirstOf(S) == IF S = {} THEN 0 ELSE CHOOSE i \in S : \A j \in S : i <= j

\* strings.Fields(s): the maximal runs of non-space characters
FieldStarts(s) ==
    {i \in 1..Len(s) : ~IsSpace(s[i]) /\ (i = 1 \/ IsSpace(s[i - 1]))}
FieldEnd(s, i) ==
    FirstOf({j \in i..Len(s) : j = Len(s) \/ IsSpace(s[j + 1])})
\* the k-th smallest element of the set of positions S
Kth(S, k) == CHOOSE i \in S : Cardinality({j \in S : j < i}) = k - 1
FieldFrom(s, i) == SubSeq(s, i, FieldEnd(s, i))
Fields(s) ==
    [k \in 1..Cardinality(FieldStarts(s)) |-> FieldFrom(s, Kth(FieldStarts(s), k))]

\* strings.Split(s, sep) for a one-character separator: always at least one part
RECURSIVE SplitFrom(_, _, _, _, _)
SplitFrom(s, sep, i, cur, acc) ==
    IF i > Len(s) THEN Append(acc, cur)
    ELSE IF s[i] = sep
         THEN SplitFrom(s, sep, i + 1, <<>>, Append(acc, cur))
         ELSE SplitFrom(s, sep, i + 1, Append(cur, s[i]), acc)
Split(s, sep) == SplitFrom(s, sep, 1, <<>>, <<>>)

\* strings.ReplaceAll(s, c, "") for a one-character c
RECURSIVE RemoveRune(_, _)
RemoveRune(s, c) ==
    IF s = <<>> THEN <<>>
    ELSE IF Head(s) = c THEN RemoveRune(Tail(s), c)
    ELSE <<Head(s)>> \o RemoveRune(Tail(s), c)

\* fmt's %d of an int
RECURSIVE ItoaNat(_)
ItoaNat(n) == IF n < 10 THEN <<Digits[n + 1]>> ELSE ItoaNat(n \div 10) \o <<Digits[(n % 10) + 1]>>
Itoa(n) == IF n < 0 THEN <<"-">> \o ItoaNat(0 - n) ELSE ItoaNat(n)


(***************************************************************************)
(* Values of type interface{}: where-clause values, bound arguments.       *)
(***************************************************************************)
IntV(n) == [kind |-> "int", val |-> n]
StrV(s) == [kind |-> "string", val |-> s]
\* fmt's %v of a value
FormatV(v) == IF v.kind = "int" THEN Itoa(v.val) ELSE v.val

sIN == <<"I","N">>

(***************************************************************************)
(* The dialect query compilers: Driver.BuildQuery of the three drivers.    *)
(* A *int is <<>> (nil) or <<n>>.                                          *)
(***************************************************************************)
\* "SELECT %s FROM %s" of the joined projection and the table
SelectPart(q) == <<"S","E","L","E","C","T"," ">> \o Join(q.Fields, <<","," ">>) \o <<" ","F","R","O","M"," ">> \o q.Table

\* operator := where.Operator; if where.Not { operator = "NOT " + operator }
WhereOperator(where) == IF where.Not THEN <<"N","O","T"," ">> \o where.Operator ELSE where.Operator

\* fmt.Sprintf("%s %s %v", where.Field, operator, where.Value)
InPart(where) == where.Field \o <<" ">> \o WhereOperator(where) \o <<" ">> \o FormatV(where.Value)

\* fmt.Sprintf("%s %s ?", where.Field, operator)
QuestionPart(where) == where.Field \o <<" ">> \o WhereOperator(where) \o <<" ","?">>

\* fmt.Sprintf("%s %s $%d", where.Field, operator, argIndex)
DollarPart(where, argIndex) ==
    where.Field \o <<" ">> \o WhereOperator(where) \o <<" ","$">> \o Itoa(argIndex)

\* the mysql/sqlite where loop in which the value of an IN clause is bound
QuestionWhereStepBindsIn(acc, where) ==
    [acc EXCEPT !.whereParts = Append(@, QuestionPart(where)),
                !.args = Append(@, where.Value)]

\* one turn of the mysql/sqlite where loop; acc is [whereParts, args]
QuestionWhereStep(acc, where) ==
    IF where.Operator = sIN
    THEN [acc EXCEPT !.whereParts = Append(@, InPart(where))]
    ELSE [acc EXCEPT !.whereParts = Append(@, QuestionPart(where)),
                     !.args = Append(@, where.Value)]

RECURSIVE QuestionWhereLoop(_, _, _)
QuestionWhereLoop(wheres, i, acc) ==
    IF i > Len(wheres) THEN acc
    ELSE QuestionWhereLoop(wheres, i + 1, QuestionWhereStep(acc, wheres[i]))

\* the postgres where loop in which an IN clause uses up a number too
PostgresWhereStepCountsIn(acc, where) ==
    IF where.Operator = sIN
    THEN [acc EXCEPT !.whereParts = Append(@, InPart(where)),
                     !.argIndex = @ + 1]
    ELSE [acc EXCEPT !.whereParts = Append(@, DollarPart(where, acc.argIndex)),
                     !.args = Append(@, where.Value),
                     !.argIndex = @ + 1]

\* the postgres where loop with an argIndex that is never advanced
PostgresWhereStepStuck(acc, where) ==
    IF where.Operator = sIN
    THEN [acc EXCEPT !.whereParts = Append(@, InPart(where))]
    ELSE [acc EXCEPT !.whereParts = Append(@, DollarPart(where, acc.argIndex)),
                     !.args = Append(@, where.Value)]

\* one turn of the postgres where loop; acc is [whereParts, args, argIndex]
PostgresWhereStep(acc, where) ==
    IF where.Operator = sIN
    THEN [acc EXCEPT !.whereParts = Append(@, InPart(where))]
    ELSE [acc EXCEPT !.whereParts = Append(@, DollarPart(where, acc.argIndex)),
                     !.args = Append(@, where.Value),
                     !.argIndex = @ + 1]

RECURSIVE PostgresWhereLoop(_, _, _)
PostgresWhereLoop(wheres, i, acc) ==
    IF i > Len(wheres) THEN acc
    ELSE PostgresWhereLoop(wheres, i + 1, PostgresWhereStep(acc, wheres[i]))

\* fmt.Sprintf("%s %s", order.Field, order.Direction) for each order-clause
OrderParts(q) == [i \in 1..Len(q.Orders) |-> q.Orders[i].Field \o <<" ">> \o q.Orders[i].Direction]

\* the parts after WHERE with OFFSET written before LIMIT
TailPartsOffsetFirst(q) ==
    (IF Len(q.Orders) > 0 THEN <<<<"O","R","D","E","R"," ","B","Y"," ">> \o Join(OrderParts(q), <<","," ">>)>> ELSE <<>>)
    \o (IF q.OffsetVal # <<>> THEN <<<<"O","F","F","S","E","T"," ">> \o Itoa(q.OffsetVal[1])>> ELSE <<>>)
    \o (IF q.LimitVal # <<>> THEN <<<<"L","I","M","I","T"," ">> \o Itoa(q.LimitVal[1])>> ELSE <<>>)

\* the parts after WHERE: ORDER BY, LIMIT, OFFSET, each only when present
TailParts(q) ==
    (IF Len(q.Orders) > 0 THEN <<<<"O","R","D","E","R"," ","B","Y"," ">> \o Join(OrderParts(q), <<","," ">>)>> ELSE <<>>)
    \o (IF q.LimitVal # <<>> THEN <<<<"L","I","M","I","T"," ">> \o Itoa(q.LimitVal[1])>> ELSE <<>>)
    \o (IF q.OffsetVal # <<>> THEN <<<<"O","F","F","S","E","T"," ">> \o Itoa(q.OffsetVal[1])>> ELSE <<>>)

\* the statement and arguments from the result of a where loop
Assemble(q, w) ==
    [sql |-> Join(<<SelectPart(q)>>
                  \o (IF Len(q.Wheres) > 0
                      THEN <<<<"W","H","E","R","E"," ">> \o Join(w.whereParts, <<" ","A","N","D"," ">>)>> ELSE <<>>)
                  \o TailParts(q), <<" ">>),
     args |-> w.args]

PostgresBuildQuery(q) ==
    Assemble(q, PostgresWhereLoop(q.Wheres, 1,
                                  [whereParts |-> <<>>, args |-> <<>>, argIndex |-> 1]))
MySQLBuildQuery(q) ==
    Assemble(q, QuestionWhereLoop(q.Wheres, 1, [whereParts |-> <<>>, args |-> <<>>]))
SQLiteBuildQuery(q) ==
    Assemble(q, QuestionWhereLoop(q.Wheres, 1, [whereParts |-> <<>>, args |-> <<>>]))

Dialects == {"postgres", "mysql", "sqlite"}

\* Driver.BuildQuery, dispatched on the driver's dialect
BuildQuery(d, q) ==
    CASE d = "postgres" -> PostgresBuildQuery(q)
      [] d = "mysql" -> MySQLBuildQuery(q)
      [] d = "sqlite" -> SQLiteBuildQuery(q)

(***************************************************************************)
(* The query execution facade: QueryExecutor and the process-wide handle.  *)
(***************************************************************************)
MaxClauses == 3
MaxExecClauses == 2
MaxRows == 1
MaxTerminal == 1

sStar == <<"*">>
sCountStar == <<"C","O","U","N","T","(","*",")">>
sUsers == <<"u","s","e","r","s">>
sId == <<"i","d">>
sDESC == <<"D","E","S","C">>

\* the arguments the builder calls are made with
WhereInputs ==
    { [field |-> <<"a","g","e">>, operator |-> <<">">>, value |-> IntV(18)],
      [field |-> <<"s","t","a","t","u","s">>, operator |-> <<"=">>, value |-> StrV(<<"a","r","c","h","i","v","e","d">>)],
      [field |-> sId, operator |-> sIN, value |-> StrV(<<"(","1",",","2",")">>)] }
WhereNotInputs ==
    { [field |-> <<"s","t","a","t","u","s">>, operator |-> <<"=">>, value |-> StrV(<<"a","r","c","h","i","v","e","d">>)],
      [field |-> sId, operator |-> sIN, value |-> StrV(<<"(","1",",","2",")">>)] }
WhereInInputs ==
    { [field |-> sId, values |-> <<IntV(1), IntV(2)>>],
      [field |-> sId, values |-> <<>>] }
OrderByInputs ==
    { [field |-> <<"n","a","m","e">>, direction |-> <<"a","s","c">>],
      [field |-> <<"a","g","e">>, direction |-> <<"D","E","S","C">>] }
LimitInputs == {10, 20}
OffsetInputs == {5, 15}
SelectInputs == { <<sId, <<"n","a","m","e">>>> }
IncludeInputs == { <<<<"p","o","s","t","s">>>> }

\* the arguments of the builder calls that precede a terminal operation
ExecWhereInputs == { [field |-> <<"a","g","e">>, operator |-> <<">">>, value |-> IntV(18)] }
ExecWhereInInputs == { [field |-> sId, values |-> <<IntV(1), IntV(2)>>] }
ExecOrderByInputs == { [field |-> <<"n","a","m","e">>, direction |-> <<"a","s","c">>] }

\* errors
ErrNil == "nil"
ErrNotInitialized == "database not initialized"
ErrNoRows == "sql: no rows in result set"
ErrQuery == "collaborator: query failed"
ErrIter == "collaborator: row iteration failed"
ErrScan == "collaborator: row decoding failed"

\* What the execution collaborator does with one query: the query fails, or it
\* delivers rows (each decodable, "ok", or not, "bad") and then ends, cleanly
\* or with an iteration error; count is the value of a COUNT(*) row.
RowSeqs == UNION { [1..n -> {"ok", "bad"}] : n \in 0..MaxRows }
QueryOutcomes ==
    { [queryErr |-> TRUE, rows |-> <<>>, iterErr |-> FALSE, count |-> 0] }
    \cup { [queryErr |-> FALSE, rows |-> r, iterErr |-> e, count |-> 0] :
           r \in RowSeqs, e \in BOOLEAN }
QueryRowOutcomes ==
    { [queryErr |-> TRUE, rows |-> <<>>, iterErr |-> FALSE, count |-> 0],
      [queryErr |-> FALSE, rows |-> <<>>, iterErr |-> TRUE, count |-> 0],
      [queryErr |-> FALSE, rows |-> <<"bad">>, iterErr |-> FALSE, count |-> 0] }
    \cup { [queryErr |-> FALSE, rows |-> <<"ok">>, iterErr |-> FALSE, count |-> c] :
           c \in {0, 2} }

NilRet == [kind |-> "nil", val |-> <<>>]
NoCall ==
    [op |-> "none", driver |-> "", before |-> <<>>, q |-> <<>>, sent |-> <<>>,
     out |-> <<>>, ret |-> NilRet, err |-> ErrNil]

\* NewQueryExecutor(table, modelType, scanner)
NewQueryExecutor(table) ==
    [Table |-> table, Fields |-> <<sStar>>, Wheres |-> <<>>, Orders |-> <<>>,
     LimitVal |-> <<>>, OffsetVal |-> <<>>, Includes |-> <<>>]

\* GetDB that falls back on a handle of its own when none is configured
GetDBWithFallback == IF GlobalDB = <<>> THEN <<[driver |-> "sqlite"]>> ELSE GlobalDB

GetDB == GlobalDB

\* a new QueryExecutor takes the place of the one in use
NewExecutor ==
    /\ query' = NewQueryExecutor(sUsers)
    /\ executed' = 0
    /\ call' = NoCall
    /\ UNCHANGED <<GlobalDB, pvars>>

\* the number of builder calls that have left something in the query
Clauses(q) ==
    Len(q.Wheres) + Len(q.Orders) + Len(q.LimitVal) + Len(q.OffsetVal) + Len(q.Includes)
    + (IF q.Fields = <<sStar>> THEN 0 ELSE 1)

SetDB(db) ==
    /\ GlobalDB' = db
    /\ call' = NoCall
    /\ UNCHANGED <<query, executed, pvars>>

Where(in) ==
    /\ query' = [query EXCEPT !.Wheres = Append(@,
                    [Field |-> in.field, Operator |-> in.operator,
                     Value |-> in.value, Not |-> FALSE])]
    /\ call' = NoCall
    /\ UNCHANGED <<GlobalDB, executed, pvars>>

\* the "?" group WhereIn renders: fmt.Sprintf("(%s)", strings.Join(placeholders, ","))
InPlaceholders(values) ==
    <<"(">> \o Join([i \in 1..Len(values) |-> <<"?">>], <<",">>) \o <<")">>

WhereIn(in) ==
    /\ query' = [query EXCEPT !.Wheres = Append(@,
                    [Field |-> in.field, Operator |-> sIN,
                     Value |-> StrV(InPlaceholders(in.values)), Not |-> FALSE])]
    /\ call' = NoCall
    /\ UNCHANGED <<GlobalDB, executed, pvars>>

\* WhereNot that leaves the negation flag unset
WhereNotUnflagged(in) ==
    /\ query' = [query EXCEPT !.Wheres = Append(@,
                    [Field |-> in.field, Operator |-> in.operator,
                     Value |-> in.value, Not |-> FALSE])]
    /\ call' = NoCall
    /\ UNCHANGED <<GlobalDB, executed, pvars>>

WhereNot(in) ==
    /\ query' = [query EXCEPT !.Wheres = Append(@,
                    [Field |-> in.field, Operator |-> in.operator,
                     Value |-> in.value, Not |-> TRUE])]
    /\ call' = NoCall
    /\ UNCHANGED <<GlobalDB, executed, pvars>>

OrderBy(in) ==
    /\ query' = [query EXCEPT !.Orders = Append(@,
                    [Field |-> in.field, Direction |-> ToUpper(in.direction)])]
    /\ call' = NoCall
    /\ UNCHANGED <<GlobalDB, executed, pvars>>

Limit(limit) ==
    /\ query' = [query EXCEPT !.LimitVal = <<limit>>]
    /\ call' = NoCall
    /\ UNCHANGED <<GlobalDB, executed, pvars>>

Offset(offset) ==
    /\ query' = [query EXCEPT !.OffsetVal = <<offset>>]
    /\ call' = NoCall
    /\ UNCHANGED <<GlobalDB, executed, pvars>>

Select(fields) ==
    /\ query' = [query EXCEPT !.Fields = fields]
    /\ call' = NoCall
    /\ UNCHANGED <<GlobalDB, executed, pvars>>

Include(relations) ==
    /\ query' = [query EXCEPT !.Includes = @ \o relations]
    /\ call' = NoCall
    /\ UNCHANGED <<GlobalDB, executed, pvars>>

\* QueryExecutor.buildSelectQueryFromQuery: the facade's own compiler
buildSelectQueryFromQuery(q) ==
    Assemble(q, QuestionWhereLoop(q.Wheres, 1, [whereParts |-> <<>>, args |-> <<>>]))

\* the failure of the call, when no handle is configured
NotInitialized(op, before, ret) ==
    [op |-> op, driver |-> "", before |-> <<before>>, q |-> <<>>, sent |-> <<>>,
     out |-> <<>>, ret |-> ret, err |-> ErrNotInitialized]

\* position of the first row the scanner fails on, 0 if none
FirstBad(rows) ==
    IF \E i \in 1..Len(rows) : rows[i] = "bad"
    THEN CHOOSE i \in 1..Len(rows) : rows[i] = "bad" /\ \A j \in 1..(i - 1) : rows[j] = "ok"
    ELSE 0

\* All, from db.Query on: what is returned for what the collaborator does
AllResult(out) ==
    IF out.queryErr THEN [ret |-> NilRet, err |-> ErrQuery]
    ELSE IF FirstBad(out.rows) # 0 THEN [ret |-> NilRet, err |-> ErrScan]
    ELSE [ret |-> [kind |-> "list", val |-> [i \in 1..Len(out.rows) |-> "item"]],
          err |-> IF out.iterErr THEN ErrIter ELSE ErrNil]

All(out) ==
    /\ IF GetDB = <<>>
       THEN call' = NotInitialized("All", query, NilRet)
       ELSE LET b == buildSelectQueryFromQuery(query)
                r == AllResult(out)
            IN  call' = [op |-> "All", driver |-> GetDB[1].driver, before |-> <<query>>,
                         q |-> <<query>>, sent |-> <<b>>, out |-> <<out>>,
                         ret |-> r.ret, err |-> r.err]
    /\ executed' = executed + 1
    /\ UNCHANGED <<query, GlobalDB, pvars>>

\* First that returns nothing, and no error, when there is no row
FirstResultNilOnEmpty(out) ==
    IF out.queryErr THEN [ret |-> NilRet, err |-> ErrQuery]
    ELSE IF Len(out.rows) = 0 THEN [ret |-> NilRet, err |-> ErrNil]
    ELSE IF out.rows[1] = "bad" THEN [ret |-> NilRet, err |-> ErrScan]
    ELSE [ret |-> [kind |-> "item", val |-> <<"item">>], err |-> ErrNil]

\* First, from db.Query on
FirstResult(out) ==
    IF out.queryErr THEN [ret |-> NilRet, err |-> ErrQuery]
    ELSE IF Len(out.rows) = 0 THEN [ret |-> NilRet, err |-> ErrNoRows]
    ELSE IF out.rows[1] = "bad" THEN [ret |-> NilRet, err |-> ErrScan]
    ELSE [ret |-> [kind |-> "item", val |-> <<"item">>], err |-> ErrNil]

\* First on the builder whose query is q0 (Last calls it after its own step);
\* before is the query the caller's call started with
FirstFrom(op, before, q0, out) ==
    LET q1 == [q0 EXCEPT !.LimitVal = <<1>>]
    IN  /\ query' = q1
        /\ IF GetDB = <<>>
           THEN call' = NotInitialized(op, before, NilRet)
           ELSE LET b == buildSelectQueryFromQuery(q1)
                    r == FirstResult(out)
                IN  call' = [op |-> op, driver |-> GetDB[1].driver,
                             before |-> <<before>>, q |-> <<q1>>, sent |-> <<b>>,
                             out |-> <<out>>, ret |-> r.ret, err |-> r.err]
        /\ executed' = executed + 1
        /\ UNCHANGED <<GlobalDB, pvars>>

First(out) == FirstFrom("First", query, query, out)

\* Last that appends the default ordering whatever the builder holds
LastAlwaysOrders(out) ==
    FirstFrom("Last", query,
              [query EXCEPT !.Orders = Append(@, [Field |-> sId, Direction |-> sDESC])],
              out)

Last(out) ==
    FirstFrom("Last", query,
              IF Len(query.Orders) = 0
              THEN [query EXCEPT !.Orders = Append(@, [Field |-> sId, Direction |-> sDESC])]
              ELSE query,
              out)

\* the count query that keeps the ordering, the limit and the offset
CountQueryKeepsTail(q) ==
    [Table |-> q.Table, Fields |-> <<sCountStar>>, Wheres |-> q.Wheres, Orders |-> q.Orders,
     LimitVal |-> q.LimitVal, OffsetVal |-> q.OffsetVal, Includes |-> <<>>]

\* the query Count compiles
CountQuery(q) ==
    [Table |-> q.Table, Fields |-> <<sCountStar>>, Wheres |-> q.Wheres, Orders |-> <<>>,
     LimitVal |-> <<>>, OffsetVal |-> <<>>, Includes |-> <<>>]

\* db.QueryRow(...).Scan(&count): count and error
CountResult(out) ==
    IF out.queryErr THEN [count |-> 0, err |-> ErrQuery]
    ELSE IF Len(out.rows) = 0
         THEN [count |-> 0, err |-> IF out.iterErr THEN ErrIter ELSE ErrNoRows]
    ELSE IF out.rows[1] = "bad" THEN [count |-> 0, err |-> ErrScan]
    ELSE [count |-> out.count, err |-> ErrNil]

Count(out) ==
    /\ IF GetDB = <<>>
       THEN call' = NotInitialized("Count", query, [kind |-> "int64", val |-> 0])
       ELSE LET cq == CountQuery(query)
                b == buildSelectQueryFromQuery(cq)
                r == CountResult(out)
            IN  call' = [op |-> "Count", driver |-> GetDB[1].driver, before |-> <<query>>,
                         q |-> <<cq>>, sent |-> <<b>>, out |-> <<out>>,
                         ret |-> [kind |-> "int64", val |-> r.count], err |-> r.err]
    /\ executed' = executed + 1
    /\ UNCHANGED <<query, GlobalDB, pvars>>

Exists(out) ==
    /\ IF GetDB = <<>>
       THEN call' = NotInitialized("Exists", query, [kind |-> "bool", val |-> FALSE])
       ELSE LET cq == CountQuery(query)
                b == buildSelectQueryFromQuery(cq)
                r == CountResult(out)
            IN  call' = [op |-> "Exists", driver |-> GetDB[1].driver, before |-> <<query>>,
                         q |-> <<cq>>, sent |-> <<b>>, out |-> <<out>>,
                         ret |-> [kind |-> "bool", val |-> r.count > 0], err |-> r.err]
    /\ executed' = executed + 1
    /\ UNCHANGED <<query, GlobalDB, pvars>>

\* a direct call of a driver's BuildQuery on the builder's query
CallBuildQuery(d) ==
    /\ call' = [op |-> "BuildQuery", driver |-> d, before |-> <<query>>, q |-> <<query>>,
                sent |-> <<>>, out |-> <<>>,
                ret |-> [kind |-> "compiled", val |-> BuildQuery(d, query)], err |-> ErrNil]
    /\ UNCHANGED <<query, GlobalDB, executed, pvars>>

(***************************************************************************)
(* Table names: core.ToSnakeCase, core.ToPlural, core.GetTableName.       *)
(***************************************************************************)
\* snake_case with the underscore written before a leading capital too
RECURSIVE SnakeEveryUpper(_)
SnakeEveryUpper(str) ==
    IF str = <<>> THEN <<>>
    ELSE (IF IsUpper(str[1]) THEN <<"_">> ELSE <<>>)
         \o <<ToLowerRune(str[1])>> \o SnakeEveryUpper(Tail(str))

RECURSIVE SnakeFrom(_, _)
SnakeFrom(str, i) ==
    IF i > Len(str) THEN <<>>
    ELSE (IF i > 1 /\ IsUpper(str[i]) THEN <<"_">> ELSE <<>>)
         \o <<ToLowerRune(str[i])>> \o SnakeFrom(str, i + 1)
ToSnakeCase(str) == SnakeFrom(str, 1)

\* ToPlural without the suffix of the default case
ToPluralNoDefault(str) ==
    IF HasSuffix(str, <<"y">>) THEN SubSeq(str, 1, Len(str) - 1) \o <<"i","e","s">>
    ELSE IF \/ HasSuffix(str, <<"s">>) \/ HasSuffix(str, <<"x">>) \/ HasSuffix(str, <<"z">>)
            \/ HasSuffix(str, <<"c","h">>) \/ HasSuffix(str, <<"s","h">>)
         THEN str \o <<"e","s">>
    ELSE str

ToPlural(str) ==
    IF HasSuffix(str, <<"y">>) THEN SubSeq(str, 1, Len(str) - 1) \o <<"i","e","s">>
    ELSE IF \/ HasSuffix(str, <<"s">>) \/ HasSuffix(str, <<"x">>) \/ HasSuffix(str, <<"z">>)
            \/ HasSuffix(str, <<"c","h">>) \/ HasSuffix(str, <<"s","h">>)
         THEN str \o <<"e","s">>
    ELSE str \o <<"s">>

GetTableName(modelName) == ToPlural(ToSnakeCase(modelName))

(***************************************************************************)
(* The schema parser: gen.Parser.                                          *)
(***************************************************************************)
\* FieldSchema.Default, an interface{}: nil, a string or a bool
NilD == [kind |-> "nil", val |-> <<>>]
StrD(s) == [kind |-> "string", val |-> s]
BoolD(b) == [kind |-> "bool", val |-> b]

sCurrentTimestamp == <<"C","U","R","R","E","N","T","_","T","I","M","E","S","T","A","M","P">>
sNowCall == <<"n","o","w","(",")">>
sDateTime == <<"D","a","t","e","T","i","m","e">>
sHasMany == <<"h","a","s","M","a","n","y">>
sBelongsTo == <<"b","e","l","o","n","g","s","T","o">>

\* the switch of parseDefaultValue on the trimmed value
DefaultOf(v) ==
    IF v = sNowCall THEN StrD(sCurrentTimestamp)
    ELSE IF v = <<"t","r","u","e">> THEN BoolD(TRUE)
    ELSE IF v = <<"f","a","l","s","e">> THEN BoolD(FALSE)
    ELSE StrD(v)

\* Parser.parseDefaultValue
parseDefaultValue(value) == DefaultOf(Trim(value, {"\"", "'"}))

\* last index of the run of characters satisfying \w that starts at i
RECURSIVE WordEnd(_, _)
WordEnd(s, i) == IF i + 1 <= Len(s) /\ IsWord(s[i + 1]) THEN WordEnd(s, i + 1) ELSE i

\* first index >= i holding the character c, 0 if there is none
IndexFrom(s, i, c) == FirstOf({j \in i..Len(s) : s[j] = c})

\* first index >= i that does not hold a space character (\s*)
RECURSIVE SkipSpace(_, _)
SkipSpace(s, i) == IF i <= Len(s) /\ IsSpace(s[i]) THEN SkipSpace(s, i + 1) ELSE i

\* re.FindAllStringSubmatch for @(\w+)(?:\(([^)]*)\))? : the matches from
\* position i on, each with group 1 (name) and group 2 (value, "" when the
\* parenthesised group takes no part in the match)
RECURSIVE FindAllAttributes(_, _)
\* the match whose name ends at e, and the matches after it; close is the
\* position of the ")" that ends the parenthesised group, 0 without a group
AttributeMatch(s, i, e, close) ==
    IF close # 0
    THEN <<[name |-> SubSeq(s, i + 1, e), value |-> SubSeq(s, e + 2, close - 1)]>>
         \o FindAllAttributes(s, close + 1)
    ELSE <<[name |-> SubSeq(s, i + 1, e), value |-> <<>>]>>
         \o FindAllAttributes(s, e + 1)
\* the position of the first ")" after the "(" that follows position e, 0 if
\* no "(" follows or no ")" closes it
GroupClose(s, e) ==
    IF e + 1 <= Len(s) /\ s[e + 1] = "(" THEN IndexFrom(s, e + 2, ")") ELSE 0
AttributeAt(s, i, e) == AttributeMatch(s, i, e, GroupClose(s, e))
\* the matches from the leftmost at-sign followed by a \w character, at position
\* j (0: there is none)
AttributesFrom(s, j) == IF j = 0 THEN <<>> ELSE AttributeAt(s, j, WordEnd(s, j + 1))
FindAllAttributes(s, i) ==
    AttributesFrom(s, FirstOf({j \in i..(Len(s) - 1) : s[j] = "@" /\ IsWord(s[j + 1])}))

\* the switch of parseAttributes on one match
ApplyAttribute(field, match) ==
    IF match.name = <<"i","d">> THEN [field EXCEPT !.Primary = TRUE]
    ELSE IF match.name = <<"a","u","t","o">> THEN [field EXCEPT !.AutoGen = TRUE]
    ELSE IF match.name = <<"u","n","i","q","u","e">> THEN [field EXCEPT !.Unique = TRUE]
    ELSE IF match.name = <<"d","e","f","a","u","l","t">>
         THEN [field EXCEPT !.Default = parseDefaultValue(match.value)]
    ELSE IF match.name = <<"u","p","d","a","t","e","d","A","t">>
         THEN [field EXCEPT !.Type = sDateTime, !.Default = StrD(sNowCall)]
    ELSE field

RECURSIVE ApplyAttributes(_, _, _)
ApplyAttributes(field, matches, i) ==
    IF i > Len(matches) THEN field
    ELSE ApplyAttributes(ApplyAttribute(field, matches[i]), matches, i + 1)

\* Parser.parseAttributes
parseAttributes(attributeStr, field) ==
    ApplyAttributes(field, FindAllAttributes(attributeStr, 1), 1)

NoGroup == [end |-> 0, list |-> <<>>]
NoMatch == [ok |-> FALSE, name |-> <<>>, fields |-> <<>>, references |-> <<>>]

\* \[([^\]]*)\] at position b: [end, list], end = 0 when it does not match
BracketListAt(s, b, close) ==
    IF close = 0 THEN NoGroup ELSE [end |-> close, list |-> SubSeq(s, b + 1, close - 1)]
ListAt(s, b) ==
    BracketListAt(s, b, IF HasAt(s, b, <<"[">>) THEN IndexFrom(s, b + 1, "]") ELSE 0)
\* <key>\s*\[...\] at position k
KeyListAt(s, k, key) ==
    IF HasAt(s, k, key) THEN ListAt(s, SkipSpace(s, k + Len(key))) ELSE NoGroup
\* ,\s*<key>\s*\[([^\]]*)\] at position i
ListGroupAt(s, i, key) ==
    IF HasAt(s, i, <<",">>) THEN KeyListAt(s, SkipSpace(s, i + 1), key) ELSE NoGroup

sFieldsKey == <<"f","i","e","l","d","s",":">>
sReferencesKey == <<"r","e","f","e","r","e","n","c","e","s",":">>
sRelationOpen == <<"@","r","e","l","a","t","i","o","n","(","\"">>

\* The @relation regular expression after the name's closing quote at
\* nameEnd: the alternatives in the order the matcher tries them (both
\* groups, the fields group alone, the references group alone, neither),
\* the first that ends in ")". f and r are the fields and the references
\* group tried right after the name, rf the references group after f.
RelationGroups(s, name, nameEnd, f, rf, r) ==
    IF f.end # 0 /\ rf.end # 0 /\ HasAt(s, rf.end + 1, <<")">>)
    THEN [ok |-> TRUE, name |-> name, fields |-> f.list, references |-> rf.list]
    ELSE IF f.end # 0 /\ HasAt(s, f.end + 1, <<")">>)
    THEN [ok |-> TRUE, name |-> name, fields |-> f.list, references |-> <<>>]
    ELSE IF r.end # 0 /\ HasAt(s, r.end + 1, <<")">>)
    THEN [ok |-> TRUE, name |-> name, fields |-> <<>>, references |-> r.list]
    ELSE IF HasAt(s, nameEnd + 1, <<")">>)
    THEN [ok |-> TRUE, name |-> name, fields |-> <<>>, references |-> <<>>]
    ELSE NoMatch

RelationAfterFields(s, name, nameEnd, f) ==
    RelationGroups(s, name, nameEnd, f,
                   IF f.end # 0 THEN ListGroupAt(s, f.end + 1, sReferencesKey) ELSE NoGroup,
                   ListGroupAt(s, nameEnd + 1, sReferencesKey))

RelationAfterName(s, start, nameEnd) ==
    IF nameEnd = 0 THEN NoMatch
    ELSE RelationAfterFields(s, SubSeq(s, start, nameEnd - 1), nameEnd,
                             ListGroupAt(s, nameEnd + 1, sFieldsKey))

\* the @relation regular expression anchored at position i
RelationMatchAt(s, i) ==
    IF HasAt(s, i, sRelationOpen)
    THEN RelationAfterName(s, i + Len(sRelationOpen),
                           IndexFrom(s, i + Len(sRelationOpen), "\""))
    ELSE NoMatch

\* re.FindStringSubmatch: the leftmost match
FirstRelation(s, i) == IF i = 0 THEN NoMatch ELSE RelationMatchAt(s, i)
FindRelation(s, i) ==
    FirstRelation(s, FirstOf({j \in i..Len(s) : RelationMatchAt(s, j).ok}))

\* strings.Split(strings.ReplaceAll(list, " ", ""), ",")
IdentifierList(list) == Split(RemoveRune(list, " "), ",")

\* the assignments from the match with belongsTo inferred from either list
ApplyRelationMatchEither(relation, m, fields, references) ==
    [Name |-> IF m.ok THEN m.name ELSE relation.Name,
     Type |-> IF Len(fields) > 0 \/ Len(references) > 0 THEN sBelongsTo ELSE relation.Type,
     Model |-> relation.Model,
     Fields |-> fields,
     References |-> references]

\* the assignments of parseRelationAttributes from the match m
ApplyRelationMatch(relation, m, fields, references) ==
    [Name |-> IF m.ok THEN m.name ELSE relation.Name,
     Type |-> IF Len(fields) > 0 /\ Len(references) > 0 THEN sBelongsTo ELSE relation.Type,
     Model |-> relation.Model,
     Fields |-> fields,
     References |-> references]

RelationFromMatch(relation, m) ==
    ApplyRelationMatch(relation, m,
        IF m.ok /\ m.fields # <<>> THEN IdentifierList(m.fields) ELSE relation.Fields,
        IF m.ok /\ m.references # <<>> THEN IdentifierList(m.references)
        ELSE relation.References)

\* Parser.parseRelationAttributes
parseRelationAttributes(attributeStr, relation) ==
    RelationFromMatch(relation, FindRelation(attributeStr, 1))

\* strings.Join(parts[2:], " ")
AttributeStr(parts) == Join(SubSeq(parts, 3, Len(parts)), <<" ">>)

\* parseRelation after strings.Fields
RelationOf(parts, model) ==
    IF Len(parts) < 2
    THEN [err |-> <<"i","n","v","a","l","i","d"," ","r","e","l","a","t","i","o","n"," ","d","e","f","i","n","i","t","i","o","n">>, model |-> model]
    ELSE [err |-> <<>>,
          model |-> [model EXCEPT !.Relations =
              Append(@, parseRelationAttributes(AttributeStr(parts),
                            [Name |-> parts[1], Type |-> sHasMany,
                             Model |-> TrimSuffix(parts[2], <<"[","]">>),
                             Fields |-> <<>>, References |-> <<>>]))]]

\* Parser.parseRelation: the error (<<>> is nil) and the model
parseRelation(line, model) == RelationOf(Fields(line), model)

\* parseField after strings.Fields
FieldOf(line, parts, model) ==
    IF Len(parts) < 2
    THEN [err |-> <<"i","n","v","a","l","i","d"," ","f","i","e","l","d"," ","d","e","f","i","n","i","t","i","o","n">>, model |-> model]
    ELSE IF HasSuffix(parts[2], <<"[","]">>) THEN parseRelation(line, model)
    ELSE [err |-> <<>>,
          model |-> [model EXCEPT !.Fields =
              Append(@, parseAttributes(AttributeStr(parts),
                            [Name |-> parts[1], Type |-> TrimSuffix(parts[2], <<"?">>),
                             Optional |-> HasSuffix(parts[2], <<"?">>), Unique |-> FALSE,
                             Primary |-> FALSE, AutoGen |-> FALSE, Default |-> NilD]))]]

\* Parser.parseField: the error (<<>> is nil) and the model
parseField(line, model) == FieldOf(line, Fields(line), model)

\* the ModelSchema of a model name
ModelNamed(modelName) ==
    [Name |-> modelName, TableName |-> GetTableName(modelName),
     Fields |-> <<>>, Relations |-> <<>>]

\* the ModelSchema a model line opens
NewModel(line) ==
    ModelNamed(TrimSpace(TrimSuffix(TrimPrefix(line, <<"m","o","d","e","l"," ">>), <<"{">>)))

\* p.schema.Models = append(p.schema.Models, *currentModel), when there is one
Commit(models, currentModel) ==
    IF currentModel # <<>> THEN Append(models, currentModel[1]) ELSE models

\* the lone "}" that commits the model and leaves currentModel set
CloseBlockKeepsModel(st) ==
    [st EXCEPT !.models = Commit(st.models, st.currentModel),
               !.inModel = FALSE]

\* the lone "}" of an open block: commit the model and leave the block
CloseBlock(st) ==
    [st EXCEPT !.models = Commit(st.models, st.currentModel),
               !.currentModel = <<>>,
               !.inModel = FALSE]

\* a model line: commit the open model, if any, and open the next
OpenBlock(st, line) ==
    [st EXCEPT !.models = Commit(st.models, st.currentModel),
               !.currentModel = <<NewModel(line)>>,
               !.inModel = TRUE]

\* a line of an open block, after parseField returned r
FieldLine(st, line, r) ==
    IF r.err # <<>>
    THEN [st EXCEPT !.err = <<<<"e","r","r","o","r"," ","p","a","r","s","i","n","g"," ","f","i","e","l","d"," ","'">> \o line \o <<"'",":"," ">> \o r.err>>]
    ELSE [st EXCEPT !.currentModel = <<r.model>>]

\* One turn of ParseFile's scan loop on the trimmed line. st holds
\* p.schema.Models, currentModel (<<>> is nil), inModel, and the error the
\* loop returned with (<<>>: none).
ScanTrimmed(st, line) ==
    IF line = <<>> \/ HasPrefix(line, <<"/","/">>) THEN st
    ELSE IF HasPrefix(line, <<"m","o","d","e","l"," ">>) THEN OpenBlock(st, line)
    ELSE IF line = <<"}">> /\ st.inModel THEN CloseBlock(st)
    ELSE IF st.inModel /\ st.currentModel # <<>>
    THEN FieldLine(st, line, parseField(line, st.currentModel[1]))
    ELSE st

ScanLine(st, text) == ScanTrimmed(st, TrimSpace(text))

RECURSIVE ScanLoop(_, _, _)
ScanLoop(lines, i, st) ==
    IF i > Len(lines) \/ st.err # <<>> THEN st
    ELSE ScanLoop(lines, i + 1, ScanLine(st, lines[i]))

\* what ParseFile returns and leaves in p.schema, from the state the scan
\* loop ended in: on an error, nil and the error, else p.schema after the
\* commit of a model left open
ParseResult(st) ==
    IF st.err # <<>>
    THEN [models |-> st.models, schema |-> <<>>, err |-> st.err[1]]
    ELSE [models |-> Commit(st.models, st.currentModel),
          schema |-> <<Commit(st.models, st.currentModel)>>, err |-> <<>>]

sErrOpen == <<"o","p","e","n",":"," ","n","o"," ","s","u","c","h"," ","f","i","l","e"," ","o","r"," ","d","i","r","e","c","t","o","r","y">>

\* NewParser(): a Parser whose schema has no models
NewParser ==
    /\ parsers' = Append(parsers, <<>>)
    /\ UNCHANGED <<parsed, fs, ddl, running, qvars>>

\* Parser.ParseFile on the parser p. A call is recorded with the *Schema it
\* returned (<<>> is nil, <<models>> the models it held at the return), the
\* error (<<>> is nil), and the number of models p.schema held when the call
\* began (held) and when it returned (kept).
Returned(p, filename, r) ==
    /\ parsers' = [parsers EXCEPT ![p] = r.models]
    /\ parsed' = Append(parsed, [parser |-> p, file |-> filename, schema |-> r.schema,
                                 err |-> r.err, held |-> Len(parsers[p]),
                                 kept |-> Len(r.models)])
    /\ UNCHANGED <<fs, ddl, running, qvars>>

ParseFile(p, filename) ==
    IF filename \notin DOMAIN fs
    THEN Returned(p, filename, [models |-> parsers[p], schema |-> <<>>, err |-> sErrOpen])
    ELSE Returned(p, filename,
                  ParseResult(ScanLoop(fs[filename], 1,
                                       [models |-> parsers[p], currentModel |-> <<>>,
                                        inModel |-> FALSE, err |-> <<>>])))


(***************************************************************************)
(* ParseFile called by concurrent callers on one Parser. A call is taken   *)
(* one turn of its scan loop at a time. currentModel and inModel are       *)
(* locals of the call; p.schema is the one object all calls of a Parser    *)
(* read and write, with no lock: the statement                             *)
(*     p.schema.Models = append(p.schema.Models, *currentModel)            *)
(* reads the slice and later writes the slice it made, and the calls of    *)
(* other callers can run in between.                                       *)
(***************************************************************************)
MaxCallers == 2

\* a caller that has not called ParseFile
Idle ==
    [pc |-> "idle", parser |-> 0, file |-> "", line |-> 0, currentModel |-> <<>>,
     inModel |-> FALSE, loaded |-> <<>>, base |-> <<>>, schema |-> <<>>, err |-> <<>>]

\* the locals of the call of caller t as a scan state that holds no models
LocalState(t) ==
    [models |-> <<>>, currentModel |-> running[t].currentModel,
     inModel |-> running[t].inModel, err |-> <<>>]

\* the turn of caller t's scan loop on its next line, run on its locals: the
\* model the turn appends to p.schema.Models, if any, is r.models
NextTurn(t) == ScanLine(LocalState(t), fs[running[t].file][running[t].line])

\* the record of a call that returned, as ParseFile's Returned keeps it
Finished(t, schema, err) ==
    parsed' = Append(parsed, [parser |-> running[t].parser, file |-> running[t].file,
                              schema |-> schema, err |-> err,
                              held |-> Len(running[t].base),
                              kept |-> Len(parsers[running[t].parser])])

\* caller t calls p.ParseFile(filename): os.Open, and the locals are declared
BeginParse(t, p, filename) ==
    /\ running[t].pc = "idle"
    /\ IF filename \notin DOMAIN fs
       THEN /\ running' = [running EXCEPT ![t] =
                    [Idle EXCEPT !.pc = "done", !.parser = p, !.file = filename,
                                 !.base = parsers[p], !.err = sErrOpen]]
            /\ parsed' = Append(parsed, [parser |-> p, file |-> filename, schema |-> <<>>,
                                         err |-> sErrOpen, held |-> Len(parsers[p]),
                                         kept |-> Len(parsers[p])])
       ELSE /\ running' = [running EXCEPT ![t] =
                    [Idle EXCEPT !.pc = "scan", !.parser = p, !.file = filename,
                                 !.line = 1, !.base = parsers[p]]]
            /\ UNCHANGED parsed
    /\ UNCHANGED <<fs, parsers, ddl, qvars>>

\* one turn of the scan loop of caller t. A turn that appends to
\* p.schema.Models reads the slice here and writes it in StoreModels; a turn
\* on which parseField fails returns nil and the error
ScanTurn(t) ==
    /\ running[t].pc = "scan"
    /\ running[t].line <= Len(fs[running[t].file])
    /\ IF NextTurn(t).err # <<>>
       THEN /\ running' = [running EXCEPT ![t].pc = "done",
                                          ![t].err = NextTurn(t).err[1]]
            /\ Finished(t, <<>>, NextTurn(t).err[1])
       ELSE /\ UNCHANGED parsed
            /\ IF NextTurn(t).models # <<>>
               THEN running' = [running EXCEPT
                        ![t].pc = "store",
                        ![t].loaded = <<parsers[running[t].parser]>>]
               ELSE running' = [running EXCEPT
                        ![t].currentModel = NextTurn(t).currentModel,
                        ![t].inModel = NextTurn(t).inModel,
                        ![t].line = @ + 1]
    /\ UNCHANGED <<fs, parsers, ddl, qvars>>

\* the end of the input of caller t: the model left open is appended (read
\* here, written in StoreModels), and the call goes on to its return
ScanTail(t) ==
    /\ running[t].pc = "scan"
    /\ running[t].line = Len(fs[running[t].file]) + 1
    /\ IF running[t].currentModel # <<>>
       THEN running' = [running EXCEPT
                ![t].pc = "store", ![t].loaded = <<parsers[running[t].parser]>>]
       ELSE running' = [running EXCEPT ![t].pc = "return"]
    /\ UNCHANGED <<fs, parsers, parsed, ddl, qvars>>

\* the write of p.schema.Models = append(<the slice read>, *currentModel) by
\* caller t, and the rest of the turn
StoreModels(t) ==
    /\ running[t].pc = "store"
    /\ parsers' = [parsers EXCEPT ![running[t].parser] =
                      Append(running[t].loaded[1], running[t].currentModel[1])]
    /\ IF running[t].line <= Len(fs[running[t].file])
       THEN running' = [running EXCEPT
                ![t].pc = "scan", ![t].loaded = <<>>,
                ![t].currentModel = NextTurn(t).currentModel,
                ![t].inModel = NextTurn(t).inModel,
                ![t].line = @ + 1]
       ELSE running' = [running EXCEPT ![t].pc = "return", ![t].loaded = <<>>]
    /\ UNCHANGED <<fs, parsed, ddl, qvars>>

\* return p.schema, scanner.Err(): the caller gets the Parser's own Schema,
\* recorded with the models it holds at the return
ReturnSchema(t) ==
    /\ running[t].pc = "return"
    /\ running' = [running EXCEPT ![t].pc = "done",
                                  ![t].schema = <<parsers[running[t].parser]>>]
    /\ Finished(t, <<parsers[running[t].parser]>>, <<>>)
    /\ UNCHANGED <<fs, parsers, ddl, qvars>>
(***************************************************************************)
(* The type mapper: core.GetSQLType.                                       *)
(***************************************************************************)
getPostgresType(goType) ==
    IF goType \in {<<"i","n","t">>, <<"I","n","t">>} THEN <<"I","N","T","E","G","E","R">>
    ELSE IF goType = <<"i","n","t","6","4">> THEN <<"B","I","G","I","N","T">>
    ELSE IF goType \in {<<"s","t","r","i","n","g">>, <<"S","t","r","i","n","g">>} THEN <<"V","A","R","C","H","A","R","(","2","5","5",")">>
    ELSE IF goType \in {<<"b","o","o","l">>, <<"B","o","o","l","e","a","n">>} THEN <<"B","O","O","L","E","A","N">>
    ELSE IF goType \in {<<"f","l","o","a","t","6","4">>, <<"F","l","o","a","t">>} THEN <<"D","O","U","B","L","E"," ","P","R","E","C","I","S","I","O","N">>
    ELSE IF goType \in {<<"t","i","m","e",".","T","i","m","e">>, <<"D","a","t","e","T","i","m","e">>} THEN <<"T","I","M","E","S","T","A","M","P">>
    ELSE <<"T","E","X","T">>

getMySQLType(goType) ==
    IF goType \in {<<"i","n","t">>, <<"I","n","t">>} THEN <<"I","N","T">>
    ELSE IF goType = <<"i","n","t","6","4">> THEN <<"B","I","G","I","N","T">>
    ELSE IF goType \in {<<"s","t","r","i","n","g">>, <<"S","t","r","i","n","g">>} THEN <<"V","A","R","C","H","A","R","(","2","5","5",")">>
    ELSE IF goType \in {<<"b","o","o","l">>, <<"B","o","o","l","e","a","n">>} THEN <<"B","O","O","L","E","A","N">>
    ELSE IF goType \in {<<"f","l","o","a","t","6","4">>, <<"F","l","o","a","t">>} THEN <<"D","O","U","B","L","E">>
    ELSE IF goType \in {<<"t","i","m","e",".","T","i","m","e">>, <<"D","a","t","e","T","i","m","e">>} THEN <<"T","I","M","E","S","T","A","M","P">>
    ELSE <<"T","E","X","T">>

getSQLiteType(goType) ==
    IF goType \in {<<"i","n","t">>, <<"I","n","t">>, <<"i","n","t","6","4">>} THEN <<"I","N","T","E","G","E","R">>
    ELSE IF goType \in {<<"s","t","r","i","n","g">>, <<"S","t","r","i","n","g">>} THEN <<"T","E","X","T">>
    ELSE IF goType \in {<<"b","o","o","l">>, <<"B","o","o","l","e","a","n">>} THEN <<"I","N","T","E","G","E","R">>
    ELSE IF goType \in {<<"f","l","o","a","t","6","4">>, <<"F","l","o","a","t">>} THEN <<"R","E","A","L">>
    ELSE IF goType \in {<<"t","i","m","e",".","T","i","m","e">>, <<"D","a","t","e","T","i","m","e">>} THEN <<"D","A","T","E","T","I","M","E">>
    ELSE <<"T","E","X","T">>

GetSQLType(goType, driver) ==
    LET baseType == TrimSuffix(goType, <<"?">>)
    IN  CASE driver = "postgres" -> getPostgresType(baseType)
          [] driver = "mysql" -> getMySQLType(baseType)
          [] driver = "sqlite" -> getSQLiteType(baseType)
          [] OTHER -> getSQLiteType(baseType)

(***************************************************************************)
(* The DDL generators: buildColumnDefinition and CreateTable of the three  *)
(* drivers.                                                                *)
(***************************************************************************)
\* the constraint parts with NOT NULL written on an optional field too
ConstraintPartsNotNullOnOptional(field) ==
    (IF field.Unique /\ ~ field.Primary THEN <<<<"U","N","I","Q","U","E">>>> ELSE <<>>)
    \o (IF ~ field.Primary THEN <<<<"N","O","T"," ","N","U","L","L">>>> ELSE <<>>)

\* the constraint parts with UNIQUE written on a primary field too
ConstraintPartsUniqueOnPrimary(field) ==
    (IF field.Unique THEN <<<<"U","N","I","Q","U","E">>>> ELSE <<>>)
    \o (IF ~ field.Optional /\ ~ field.Primary THEN <<<<"N","O","T"," ","N","U","L","L">>>> ELSE <<>>)

\* the constraint parts every dialect appends after the type and PRIMARY KEY
ConstraintParts(field) ==
    (IF field.Unique /\ ~ field.Primary THEN <<<<"U","N","I","Q","U","E">>>> ELSE <<>>)
    \o (IF ~ field.Optional /\ ~ field.Primary THEN <<<<"N","O","T"," ","N","U","L","L">>>> ELSE <<>>)

\* the DEFAULT part of a string default, the same in every dialect
StringDefaultPart(v) ==
    IF v = sCurrentTimestamp THEN <<"D","E","F","A","U","L","T"," ","C","U","R","R","E","N","T","_","T","I","M","E","S","T","A","M","P">>
    ELSE <<"D","E","F","A","U","L","T"," ","'">> \o v \o <<"'">>

\* fmt.Sprintf("DEFAULT %t", v)
BoolDefaultPart(v) == IF v THEN <<"D","E","F","A","U","L","T"," ","t","r","u","e">> ELSE <<"D","E","F","A","U","L","T"," ","f","a","l","s","e">>

\* fmt.Sprintf("DEFAULT %v", v) of a default that is neither string nor bool
OtherDefaultPart(v) == <<"D","E","F","A","U","L","T"," ">> \o Itoa(v)

\* the DEFAULT part under postgres and mysql
DefaultParts(field) ==
    IF field.Default.kind = "nil" THEN <<>>
    ELSE IF field.Default.kind = "string" THEN <<StringDefaultPart(field.Default.val)>>
    ELSE IF field.Default.kind = "bool" THEN <<BoolDefaultPart(field.Default.val)>>
    ELSE <<OtherDefaultPart(field.Default.val)>>

\* the DEFAULT part under sqlite with a bool written as under postgres
SQLiteDefaultPartsAsPostgres(field) ==
    IF field.Default.kind = "nil" THEN <<>>
    ELSE IF field.Default.kind = "string" THEN <<StringDefaultPart(field.Default.val)>>
    ELSE IF field.Default.kind = "bool" THEN <<BoolDefaultPart(field.Default.val)>>
    ELSE <<OtherDefaultPart(field.Default.val)>>

\* the DEFAULT part under sqlite
SQLiteDefaultParts(field) ==
    IF field.Default.kind = "nil" THEN <<>>
    ELSE IF field.Default.kind = "string" THEN <<StringDefaultPart(field.Default.val)>>
    ELSE IF field.Default.kind = "bool"
         THEN <<IF field.Default.val THEN <<"D","E","F","A","U","L","T"," ","1">> ELSE <<"D","E","F","A","U","L","T"," ","0">>>>
    ELSE <<OtherDefaultPart(field.Default.val)>>

PostgresColumnDefinition(field) ==
    LET sqlType == IF field.Primary /\ field.AutoGen THEN <<"S","E","R","I","A","L">>
                   ELSE GetSQLType(field.Type, "postgres")
    IN  Join(<<field.Name, sqlType>>
             \o (IF field.Primary THEN <<<<"P","R","I","M","A","R","Y"," ","K","E","Y">>>> ELSE <<>>)
             \o ConstraintParts(field) \o DefaultParts(field), <<" ">>)

\* the mysql column with the declared type kept on an auto-generated key
MySQLColumnDefinitionDeclaredType(field) ==
    Join(<<field.Name, GetSQLType(field.Type, "mysql")>>
         \o (IF field.Primary THEN <<<<"P","R","I","M","A","R","Y"," ","K","E","Y">>>> ELSE <<>>)
         \o ConstraintParts(field) \o DefaultParts(field), <<" ">>)

MySQLColumnDefinition(field) ==
    LET sqlType == IF field.Primary /\ field.AutoGen THEN <<"I","N","T"," ","A","U","T","O","_","I","N","C","R","E","M","E","N","T">>
                   ELSE GetSQLType(field.Type, "mysql")
    IN  Join(<<field.Name, sqlType>>
             \o (IF field.Primary THEN <<<<"P","R","I","M","A","R","Y"," ","K","E","Y">>>> ELSE <<>>)
             \o ConstraintParts(field) \o DefaultParts(field), <<" ">>)

SQLiteColumnDefinition(field) ==
    LET sqlType == IF field.Primary /\ field.AutoGen THEN <<"I","N","T","E","G","E","R">>
                   ELSE GetSQLType(field.Type, "sqlite")
    IN  Join(<<field.Name, sqlType>>
             \o (IF field.Primary
                 THEN <<<<"P","R","I","M","A","R","Y"," ","K","E","Y">>>>
                      \o (IF field.AutoGen THEN <<<<"A","U","T","O","I","N","C","R","E","M","E","N","T">>>> ELSE <<>>)
                 ELSE <<>>)
             \o ConstraintParts(field) \o SQLiteDefaultParts(field), <<" ">>)

\* Driver.buildColumnDefinition, dispatched on the dialect
buildColumnDefinition(d, field) ==
    CASE d = "postgres" -> PostgresColumnDefinition(field)
      [] d = "mysql" -> MySQLColumnDefinition(field)
      [] d = "sqlite" -> SQLiteColumnDefinition(field)

\* the columns of a model, in field order
Columns(d, model) == [i \in 1..Len(model.Fields) |-> buildColumnDefinition(d, model.Fields[i])]

\* the column separator ",\n  " of CreateTable
sColumnSep == <<",", "\n", " ", " ">>

\* fmt.Sprintf("CREATE TABLE IF NOT EXISTS %s (\n  %s\n)", table, columns)
CreateTableText(tableName, columns) ==
    <<"C","R","E","A","T","E"," ","T","A","B","L","E"," ","I","F"," ","N","O","T"," ","E","X","I","S","T","S"," ">> \o tableName \o <<" ", "(", "\n", " ", " ">>
    \o Join(columns, sColumnSep) \o <<"\n", ")">>

PostgresCreateTable(model) ==
    CreateTableText(model.TableName,
        [i \in 1..Len(model.Fields) |-> PostgresColumnDefinition(model.Fields[i])])

MySQLCreateTable(model) ==
    CreateTableText(model.TableName,
        [i \in 1..Len(model.Fields) |-> MySQLColumnDefinition(model.Fields[i])])
    \o <<" ","E","N","G","I","N","E","=","I","n","n","o","D","B"," ","D","E","F","A","U","L","T"," ","C","H","A","R","S","E","T","=","u","t","f","8","m","b","4">>

SQLiteCreateTable(model) ==
    CreateTableText(model.TableName,
        [i \in 1..Len(model.Fields) |-> SQLiteColumnDefinition(model.Fields[i])])

\* Driver.CreateTable, dispatched on the dialect
CreateTableSQL(d, model) ==
    CASE d = "postgres" -> PostgresCreateTable(model)
      [] d = "mysql" -> MySQLCreateTable(model)
      [] d = "sqlite" -> SQLiteCreateTable(model)

\* a call of driver d's CreateTable on the k-th model of the schema the most
\* recent ParseFile call returned
CreateTable(d, k) ==
    /\ parsed # <<>>
    /\ parsed[Len(parsed)].schema # <<>>
    /\ k \in 1..Len(parsed[Len(parsed)].schema[1])
    /\ LET model == parsed[Len(parsed)].schema[1][k]
       IN  ddl' = [driver |-> d, model |-> <<model>>, columns |-> Columns(d, model),
                   sql |-> CreateTableSQL(d, model)]
    /\ UNCHANGED <<parsers, parsed, fs, running, qvars>>

NoDDL == [driver |-> "", model |-> <<>>, columns |-> <<>>, sql |-> <<>>]

(***************************************************************************)
(* Schema texts. A file is the sequence of its lines.                      *)
(***************************************************************************)
MaxLines == 4
MaxFields == 2
MaxParsers == 2
MaxParses == 2

lModelUser == <<"m","o","d","e","l"," ","U","s","e","r"," ","{">>
lModelPost == <<"m","o","d","e","l"," ","P","o","s","t"," ","{">>
lClose == <<"}">>
lId == <<" "," ","i","d"," "," "," "," "," "," "," "," ","I","n","t"," "," "," "," "," "," ","@","i","d"," ","@","a","u","t","o">>
lEmail == <<" "," ","e","m","a","i","l"," "," "," "," "," ","S","t","r","i","n","g"," "," "," ","@","u","n","i","q","u","e">>
lName == <<" "," ","n","a","m","e"," "," "," "," "," "," ","S","t","r","i","n","g","?">>
lAge == <<" "," ","a","g","e"," "," "," "," "," "," "," ","I","n","t"," "," "," "," "," "," ","@","d","e","f","a","u","l","t","(","0",")">>
lCreatedAt == <<" "," ","c","r","e","a","t","e","d","A","t"," ","D","a","t","e","T","i","m","e"," ","@","d","e","f","a","u","l","t","(","n","o","w","(",")",")">>
lUpdatedAt == <<" "," ","u","p","d","a","t","e","d","A","t"," ","D","a","t","e","T","i","m","e"," ","@","u","p","d","a","t","e","d","A","t">>
lPosts == <<" "," ","p","o","s","t","s"," "," "," "," "," ","P","o","s","t","[","]"," "," "," ","@","r","e","l","a","t","i","o","n","(","\"","U","s","e","r","P","o","s","t","s","\"",")">>
lTitle == <<" "," ","t","i","t","l","e"," "," "," "," ","S","t","r","i","n","g">>
lAuthorId == <<" "," ","a","u","t","h","o","r","I","d"," ","I","n","t">>
lAuthor == <<" "," ","a","u","t","h","o","r"," "," "," ","U","s","e","r"," "," "," ","@","r","e","l","a","t","i","o","n","(","\"","U","s","e","r","P","o","s","t","s","\"",","," ","f","i","e","l","d","s",":"," ","[","a","u","t","h","o","r","I","d","]",","," ","r","e","f","e","r","e","n","c","e","s",":"," ","[","i","d","]",")">>
lOneToken == <<" "," ","e","m","a","i","l">>
lTags == <<" "," ","t","a","g","s"," "," "," "," "," "," ","T","a","g","[","]">>
lOwner == <<" "," ","o","w","n","e","r"," "," "," "," "," ","U","s","e","r","[","]"," "," "," ","@","r","e","l","a","t","i","o","n","(","\"","O","w","n","e","r","\"",","," ","f","i","e","l","d","s",":"," ","[","o","w","n","e","r","I","d","]",","," ","r","e","f","e","r","e","n","c","e","s",":"," ","[","i","d","]",")">>
lDrafts == <<" "," ","d","r","a","f","t","s"," "," "," "," ","P","o","s","t","[","]"," "," "," ","@","r","e","l","a","t","i","o","n","(","\"","D","r","a","f","t","s","\"",","," ","f","i","e","l","d","s",":"," ","[","a","u","t","h","o","r","I","d","]",")">>
lLikes == <<" "," ","l","i","k","e","s"," "," "," "," "," ","L","i","k","e","[","]"," "," "," ","@","r","e","l","a","t","i","o","n","(","\"","L","i","k","e","s","\"",","," ","r","e","f","e","r","e","n","c","e","s",":"," ","[","i","d","]",")">>
lNotes == <<" "," ","n","o","t","e","s"," "," "," "," "," ","N","o","t","e","[","]"," "," "," ","@","r","e","l","a","t","i","o","n","(","\"","N","o","t","e","s","\"",","," ","f","i","e","l","d","s",":"," ","[","]",","," ","r","e","f","e","r","e","n","c","e","s",":"," ","[","]",")">>
lViews == <<" "," ","v","i","e","w","s"," "," "," "," "," ","I","n","t","6","4">>
lCount == <<" "," ","c","o","u","n","t"," "," "," "," "," ","i","n","t","6","4">>
lActive == <<" "," ","a","c","t","i","v","e"," "," "," "," ","B","o","o","l","e","a","n"," "," ","@","d","e","f","a","u","l","t","(","t","r","u","e",")">>
lScore == <<" "," ","s","c","o","r","e"," "," "," "," "," ","F","l","o","a","t","?">>
lData == <<" "," ","d","a","t","a"," "," "," "," "," "," ","J","s","o","n">>
lCode == <<" "," ","c","o","d","e"," "," "," "," "," "," ","S","t","r","i","n","g"," "," "," ","@","i","d">>
lKey == <<" "," ","k","e","y"," "," "," "," "," "," "," ","S","t","r","i","n","g"," "," "," ","@","i","d"," ","@","u","n","i","q","u","e">>
lNick == <<" "," ","n","i","c","k"," "," "," "," "," "," ","S","t","r","i","n","g","?"," "," ","@","u","n","i","q","u","e">>
lRole == <<" "," ","r","o","l","e"," "," "," "," "," "," ","S","t","r","i","n","g"," "," "," ","@","u","n","i","q","u","e"," ","@","d","e","f","a","u","l","t","(","\"","u","s","e","r","\"",")">>
lSeq == <<" "," ","s","e","q"," "," "," "," "," "," "," ","I","n","t","?"," "," "," "," "," ","@","i","d"," ","@","a","u","t","o"," ","@","d","e","f","a","u","l","t","(","1",")">>
lHidden == <<" "," ","h","i","d","d","e","n"," "," "," "," ","B","o","o","l","e","a","n"," "," ","@","d","e","f","a","u","l","t","(","f","a","l","s","e",")">>
lPrice == <<" "," ","p","r","i","c","e"," "," "," "," "," ","F","l","o","a","t"," "," "," "," ","@","d","e","f","a","u","l","t","(","9",".","5",")">>
lLang == <<" "," ","l","a","n","g"," "," "," "," "," "," ","S","t","r","i","n","g"," "," "," ","@","d","e","f","a","u","l","t","(","'","e","n","'",")">>
lUid == <<" "," ","u","i","d"," "," "," "," "," "," "," ","S","t","r","i","n","g"," "," "," ","@","i","d"," ","@","a","u","t","o">>
lCounter == <<" "," ","c","o","u","n","t","e","r"," "," "," ","I","n","t"," "," "," "," "," "," ","@","a","u","t","o">>
lComment == <<"/","/"," ","u","s","e","r","s">>
lBlank == <<" "," ">>

\* the schema of the documentation (gen/emitter.go, "Schema Definition")
DocUser ==
    <<lModelUser, lId, lEmail, lName, lAge, lCreatedAt, lUpdatedAt, lBlank, lPosts, lClose>>
DocPost ==
    <<lModelPost, lId, lTitle, lAuthorId, lBlank, lAuthor, lClose>>

\* the schema of scenario 1, as it is written and with one line per declaration
Scenario1 ==
    << <<"m","o","d","e","l"," ","U","s","e","r"," ","{"," ","i","d"," ","I","n","t"," ","@","i","d"," ","@","a","u","t","o"," ">>, <<" ","e","m","a","i","l"," ","S","t","r","i","n","g"," ","@","u","n","i","q","u","e"," ","}">> >>
Scenario1Lines ==
    << <<"m","o","d","e","l"," ","U","s","e","r"," ","{">>, <<"i","d"," ","I","n","t"," ","@","i","d"," ","@","a","u","t","o">>, <<"e","m","a","i","l"," ","S","t","r","i","n","g"," ","@","u","n","i","q","u","e">>, <<"}">> >>

\* all sequences of at most n elements of S
SeqsUpTo(S, n) == UNION { [1..k -> S] : k \in 0..n }

\* texts that exercise the block structure
StructLines == {lModelUser, lModelPost, lClose, lId, lOneToken, lComment}
StructTexts == SeqsUpTo(StructLines, MaxLines)

\* one model block holding field and relation declarations
FieldLines == {lId, lEmail, lName, lAge, lCreatedAt, lUpdatedAt, lPosts, lAuthor}
FieldTexts == { <<lModelUser>> \o body \o <<lClose>> : body \in SeqsUpTo(FieldLines, MaxFields) }

\* one model block holding declarations whose type carries the list marker
RelationLines == {lPosts, lTags, lOwner, lDrafts, lLikes, lNotes}
RelationTexts ==
    { <<lModelUser>> \o body \o <<lClose>> : body \in SeqsUpTo(RelationLines, MaxFields) }

\* one model block holding fields of every type of the type mapper
TypeLines == {lAge, lViews, lCount, lName, lActive, lScore, lCreatedAt, lData}
TypeTexts ==
    { <<lModelUser>> \o body \o <<lClose>> : body \in SeqsUpTo(TypeLines, MaxFields) }

\* one model block holding fields of every combination of constraints
ConstraintLines == {lId, lCode, lKey, lNick, lRole, lSeq, lName, lActive}
ConstraintTexts ==
    { <<lModelUser>> \o body \o <<lClose>> : body \in SeqsUpTo(ConstraintLines, MaxFields) }

\* one model block holding fields with a default of every kind
DefaultLines == {lActive, lHidden, lAge, lPrice, lRole, lLang}
DefaultTexts ==
    { <<lModelUser>> \o body \o <<lClose>> : body \in SeqsUpTo(DefaultLines, MaxFields) }

\* one model block holding fields that are primary, auto-generated or both
AutoLines == {lId, lUid, lSeq, lCode, lCounter, lEmail}
AutoTexts ==
    { <<lModelUser>> \o body \o <<lClose>> : body \in SeqsUpTo(AutoLines, MaxFields) }

\* one model block for each of a set of model names
ModelNames ==
    { <<"U","s","e","r">>, <<"C","a","t","e","g","o","r","y">>, <<"U","s","e","r","P","o","s","t">>, <<"B","o","x">>, <<"Q","u","i","z">>, <<"M","a","t","c","h">>,
      <<"D","i","s","h">>, <<"C","l","a","s","s">>, <<"D","a","y">>, <<"A","P","I","K","e","y">>, <<"p","o","s","t">> }
NameTexts == { <<<<"m","o","d","e","l"," ">> \o n \o <<" ","{">>, lId, lClose>> : n \in ModelNames }

GenTexts ==
    StructTexts \cup FieldTexts \cup RelationTexts \cup TypeTexts \cup ConstraintTexts
    \cup DefaultTexts \cup AutoTexts \cup NameTexts
    \cup {DocUser, DocPost, Scenario1, Scenario1Lines}

\* texts parsed by a parser that is used more than once
ParseTexts ==
    { DocUser,
      Scenario1Lines,
      <<lModelUser, lId, lClose, lModelPost, lOneToken, lClose>>,
      <<lModelUser, lId, lModelPost, lId>>,
      <<lModelUser, lOneToken, lClose>>,
      <<lComment, lClose>> }

FileNames == {"schema.cmt", "post.cmt", "missing.cmt"}

(***************************************************************************)
(* Specifications.                                                         *)
(***************************************************************************)
QueryInit ==
    /\ query = NewQueryExecutor(sUsers)
    /\ GlobalDB = <<>>
    /\ call = NoCall
    /\ executed = 0

GenInit(texts) ==
    /\ fs \in { [f \in {"schema.cmt", "post.cmt"} |->
                    IF f = "schema.cmt" THEN t ELSE DocPost] : t \in texts }
    /\ parsers = << <<>> >>
    /\ parsed = <<>>
    /\ ddl = NoDDL
    /\ running = [t \in 1..MaxCallers |-> Idle]

\* Spec: one QueryExecutor at a time and the process-wide handle: the builder
\* calls and the terminal operations
Init == QueryInit /\ GenInit({DocUser})

Next ==
    \/ \E d \in Dialects : SetDB(<<[driver |-> d]>>)
    \/ SetDB(<<>>)
    \/ NewExecutor
    \/ \E in \in ExecWhereInputs : Clauses(query) < MaxExecClauses /\ Where(in)
    \/ \E in \in ExecWhereInInputs : Clauses(query) < MaxExecClauses /\ WhereIn(in)
    \/ \E in \in WhereNotInputs : Clauses(query) < MaxExecClauses /\ WhereNot(in)
    \/ \E in \in ExecOrderByInputs : Clauses(query) < MaxExecClauses /\ OrderBy(in)
    \/ \E n \in LimitInputs : Clauses(query) < MaxExecClauses /\ Limit(n)
    \/ \E n \in OffsetInputs : Clauses(query) < MaxExecClauses /\ Offset(n)
    \/ \E fields \in SelectInputs : Clauses(query) < MaxExecClauses /\ Select(fields)
    \/ \E relations \in IncludeInputs : Clauses(query) < MaxExecClauses /\ Include(relations)
    \/ \E out \in QueryOutcomes : executed < MaxTerminal /\ All(out)
    \/ \E out \in QueryOutcomes : executed < MaxTerminal /\ First(out)
    \/ \E out \in QueryOutcomes : executed < MaxTerminal /\ Last(out)
    \/ \E out \in QueryRowOutcomes : executed < MaxTerminal /\ Count(out)
    \/ \E out \in QueryRowOutcomes : executed < MaxTerminal /\ Exists(out)

Spec == Init /\ [][Next]_vars

\* SpecBuild: the builder calls, and the three drivers' BuildQuery applied to
\* the Query they have built
BuildNext ==
    \/ \E in \in WhereInputs : Clauses(query) < MaxClauses /\ Where(in)
    \/ \E in \in WhereInInputs : Clauses(query) < MaxClauses /\ WhereIn(in)
    \/ \E in \in WhereNotInputs : Clauses(query) < MaxClauses /\ WhereNot(in)
    \/ \E in \in OrderByInputs : Clauses(query) < MaxClauses /\ OrderBy(in)
    \/ \E n \in LimitInputs : Clauses(query) < MaxClauses /\ Limit(n)
    \/ \E n \in OffsetInputs : Clauses(query) < MaxClauses /\ Offset(n)
    \/ \E fields \in SelectInputs : Clauses(query) < MaxClauses /\ Select(fields)
    \/ \E relations \in IncludeInputs : Clauses(query) < MaxClauses /\ Include(relations)
    \/ \E d \in Dialects : CallBuildQuery(d)

SpecBuild == Init /\ [][BuildNext]_vars

\* SpecParse: parsers that parse several files, as the Generator's parser does
ParseInit == QueryInit /\ GenInit(ParseTexts)

ParseNext ==
    \/ Len(parsers) < MaxParsers /\ NewParser
    \/ \E p \in 1..Len(parsers), f \in FileNames :
          Len(parsed) < MaxParses /\ ParseFile(p, f)

SpecParse == ParseInit /\ [][ParseNext]_vars

\* SpecGen: one file parsed by a fresh parser, and DDL generated for its models
GenSpecInit == QueryInit /\ GenInit(GenTexts)

GenNext ==
    \/ parsed = <<>> /\ ParseFile(1, "schema.cmt")
    \/ \E d \in Dialects, k \in 1..MaxLines : CreateTable(d, k)

SpecGen == GenSpecInit /\ [][GenNext]_vars


\* SpecRace: callers that call ParseFile on one Parser at the same time
RaceTexts ==
    { Scenario1Lines,
      <<lModelUser, lId, lModelPost, lId>>,
      <<lModelUser, lOneToken, lClose>> }

RaceInit == QueryInit /\ GenInit(RaceTexts)

RaceNext ==
    \/ \E t \in 1..MaxCallers, f \in FileNames : BeginParse(t, 1, f)
    \/ \E t \in 1..MaxCallers : ScanTurn(t)
    \/ \E t \in 1..MaxCallers : ScanTail(t)
    \/ \E t \in 1..MaxCallers : StoreModels(t)
    \/ \E t \in 1..MaxCallers : ReturnSchema(t)

SpecRace == RaceInit /\ [][RaceNext]_vars

(***************************************************************************)
(* Properties of the query compilers and of the QueryExecutor.             *)
(***************************************************************************)
NoInClause(q) == \A i \in 1..Len(q.Wheres) : q.Wheres[i].Operator # sIN

\* the positions of the placeholders of dialect d in the text sql
PlaceholderAt(d, sql) ==
    {i \in 1..Len(sql) : sql[i] = (IF d = "postgres" THEN "$" ELSE "?")}

\* the digits that follow the k-th placeholder of a postgres text are those of k
NumberedInOrder(sql) ==
    \A k \in 1..Cardinality(PlaceholderAt("postgres", sql)) :
        HasAt(sql, Kth(PlaceholderAt("postgres", sql), k) + 1, Itoa(k))

PlaceholdersMatchArgs(d, q, r) ==
    /\ Cardinality(PlaceholderAt(d, r.sql)) = Len(r.args)
    /\ Len(r.args) = Len(q.Wheres)
    /\ \A i \in 1..Len(r.args) : r.args[i] = q.Wheres[i].Value
    /\ d = "postgres" => NumberedInOrder(r.sql)

\* C1: for a Query without an IN where-clause, each dialect's BuildQuery
\* returns as many arguments as the SQL has placeholders, the i-th argument
\* being the value of the i-th where-clause (postgres numbers them $1, $2, ...)
C1_PlaceholdersMatchArguments ==
    (call.op = "BuildQuery" /\ NoInClause(call.q[1]))
        => PlaceholdersMatchArgs(call.driver, call.q[1], call.ret.val)

C1_Witness ==
    /\ call.op = "BuildQuery"
    /\ call.driver = "postgres"
    /\ NoInClause(call.q[1])
    /\ Len(call.q[1].Wheres) = 2
    /\ call.q[1].Wheres[1].Value # call.q[1].Wheres[2].Value

\* C2: what a terminal operation hands to the execution collaborator is what
\* the configured driver's BuildQuery returns for the same Query
C2_SentIsDriverCompiled ==
    (call.op \in {"All", "First", "Last", "Count"} /\ call.sent # <<>>)
        => call.sent[1] = BuildQuery(call.driver, call.q[1])

\* the failure the collaborator met while the operation ran: ErrNil when it
\* met none before the operation had what it reads
MetFailure(out) ==
    IF out.queryErr THEN ErrQuery
    ELSE IF out.rows # <<>> /\ out.rows[1] = "bad" THEN ErrScan
    ELSE IF out.rows = <<>> /\ out.iterErr THEN ErrIter
    ELSE ErrNil

\* C3: a terminal operation whose query, row iteration or row decoding fails
\* with an error returns that error, never another condition and never success
C3_FailurePropagatedUnchanged ==
    (call.out # <<>> /\ MetFailure(call.out[1]) # ErrNil)
        => call.err = MetFailure(call.out[1])

(***************************************************************************)
(* Properties of the schema parser and of the generated DDL.               *)
(***************************************************************************)
\* C4: two successful ParseFile calls on the same file return the same IR,
\* also when both are made on the same Parser
C4_ParseTwiceSameIR ==
    \A i, j \in 1..Len(parsed) :
        (/\ parsed[i].file = parsed[j].file
         /\ parsed[i].schema # <<>>
         /\ parsed[j].schema # <<>>)
            => parsed[i].schema = parsed[j].schema

\* the fields named name of the model DDL was generated for, by position
FieldsNamed(name) ==
    IF ddl.model = <<>> THEN {}
    ELSE {i \in 1..Len(ddl.model[1].Fields) : ddl.model[1].Fields[i].Name = name}

DeclaredIn(line) == \E k \in 1..Len(fs["schema.cmt"]) : fs["schema.cmt"][k] = line

sDefaultCurrentTimestamp == <<"D","E","F","A","U","L","T"," ","C","U","R","R","E","N","T","_","T","I","M","E","S","T","A","M","P">>

\* C5: the field declared with @default(now()) has the current-timestamp
\* sentinel as its default and its column, in every dialect, reads
\* DEFAULT CURRENT_TIMESTAMP
C5_DefaultNowIsCurrentTimestamp ==
    DeclaredIn(lCreatedAt) =>
        \A i \in FieldsNamed(<<"c","r","e","a","t","e","d","A","t">>) :
            /\ ddl.model[1].Fields[i].Default = StrD(sCurrentTimestamp)
            /\ Contains(ddl.columns[i], sDefaultCurrentTimestamp)

\* C6: the field carrying @updatedAt has type DateTime and the
\* current-timestamp sentinel as its default, and its column, in every
\* dialect, reads DEFAULT CURRENT_TIMESTAMP
C6_UpdatedAtIsCurrentTimestamp ==
    DeclaredIn(lUpdatedAt) =>
        \A i \in FieldsNamed(<<"u","p","d","a","t","e","d","A","t">>) :
            /\ ddl.model[1].Fields[i].Type = sDateTime
            /\ ddl.model[1].Fields[i].Default = StrD(sCurrentTimestamp)
            /\ Contains(ddl.columns[i], sDefaultCurrentTimestamp)

\* the ParseFile calls that failed on a field line
FieldErrors ==
    {i \in 1..Len(parsed) : parsed[i].err # <<>> /\ parsed[i].err # sErrOpen}

\* C7: a ParseFile call that fails on a line of fewer than two tokens reports
\* the line, returns no Schema, and leaves nothing of its file for a later
\* ParseFile call on the same Parser to return
C7_FailedParseReturnsNothing ==
    \A i \in FieldErrors :
        /\ parsed[i].schema = <<>>
        /\ Contains(parsed[i].err, <<"'","e","m","a","i","l","'">>)
        /\ \A j \in (i + 1)..Len(parsed) :
              (parsed[j].parser = parsed[i].parser /\ parsed[j].schema # <<>>)
                  => parsed[i].kept = parsed[i].held

IsModelLine(line) == HasPrefix(TrimSpace(line), <<"m","o","d","e","l"," ">>)
ModelLines(text) == SelectSeq(text, IsModelLine)

\* C8: a successful parse by a fresh Parser returns one ModelSchema per model
\* line of the text, in text order, however each block ended
C8_OneModelPerModelLine ==
    (parsed # <<>> /\ parsed[1].held = 0 /\ parsed[1].schema # <<>>)
        => /\ Len(parsed[1].schema[1]) = Len(ModelLines(fs[parsed[1].file]))
           /\ \A k \in 1..Len(parsed[1].schema[1]) :
                 parsed[1].schema[1][k].Name
                     = NewModel(TrimSpace(ModelLines(fs[parsed[1].file])[k])).Name

C8_Witness ==
    /\ parsed # <<>>
    /\ parsed[1].schema # <<>>
    /\ fs["schema.cmt"] = <<lModelUser, lClose, lModelPost, lModelUser>>
    /\ Len(parsed[1].schema[1]) = 3

\* one model, table users, two fields, the first one primary and auto-generated
Scenario1IR(r) ==
    /\ r.schema # <<>>
    /\ Len(r.schema[1]) = 1
    /\ r.schema[1][1].TableName = sUsers
    /\ Len(r.schema[1][1].Fields) = 2
    /\ r.schema[1][1].Fields[1].Primary
    /\ r.schema[1][1].Fields[1].AutoGen

\* C9 as stated: the text of scenario 1, as it is written, parses to one
\* model, table users, two fields, the first one primary and auto-generated
C9_Scenario1AsWritten ==
    (parsed # <<>> /\ fs["schema.cmt"] = Scenario1) => Scenario1IR(parsed[1])

\* C9: the schema of scenario 1 written one declaration per line parses to
\* one model, table users, two fields, the first one primary and
\* auto-generated
C9_Scenario1PerLine ==
    (parsed # <<>> /\ fs["schema.cmt"] = Scenario1Lines) => Scenario1IR(parsed[1])

C9_Witness ==
    /\ parsed # <<>>
    /\ fs["schema.cmt"] = Scenario1Lines
    /\ parsed[1].schema # <<>>
    /\ Len(parsed[1].schema[1][1].Fields) = 2

\* the belongsTo relation the documented declaration of author denotes
AuthorRelation(relation) ==
    /\ relation.Type = sBelongsTo
    /\ relation.Model = <<"U","s","e","r">>
    /\ relation.Fields = <<<<"a","u","t","h","o","r","I","d">>>>
    /\ relation.References = <<<<"i","d">>>>

\* C10: the declaration of author with @relation, fields and references is
\* parsed as a belongsTo Relation toward User with fields [authorId] and
\* references [id], and adds no scalar field named author
C10_AuthorIsBelongsTo ==
    (/\ parsed # <<>>
     /\ parsed[1].schema # <<>>
     /\ fs["schema.cmt"] = <<lModelUser, lAuthor, lClose>>)
        => /\ \E k \in 1..Len(parsed[1].schema[1][1].Relations) :
                 AuthorRelation(parsed[1].schema[1][1].Relations[k])
           /\ \A k \in 1..Len(parsed[1].schema[1][1].Fields) :
                 parsed[1].schema[1][1].Fields[k].Name # <<"a","u","t","h","o","r">>

\* what each declaration with the list marker denotes: the target type, and
\* belongsTo when its annotation gives both lists with names in them
RelationCases ==
    { [line |-> lPosts, name |-> <<"p","o","s","t","s">>, model |-> <<"P","o","s","t">>, kind |-> sHasMany],
      [line |-> lTags, name |-> <<"t","a","g","s">>, model |-> <<"T","a","g">>, kind |-> sHasMany],
      [line |-> lOwner, name |-> <<"o","w","n","e","r">>, model |-> <<"U","s","e","r">>, kind |-> sBelongsTo],
      [line |-> lDrafts, name |-> <<"d","r","a","f","t","s">>, model |-> <<"P","o","s","t">>, kind |-> sHasMany],
      [line |-> lLikes, name |-> <<"l","i","k","e","s">>, model |-> <<"L","i","k","e">>, kind |-> sHasMany],
      [line |-> lNotes, name |-> <<"n","o","t","e","s">>, model |-> <<"N","o","t","e">>, kind |-> sHasMany] }
IsRelationLine(line) == \E c \in RelationCases : c.line = line
RelationCase(line) == CHOOSE c \in RelationCases : c.line = line
\* the declarations with the list marker of the text parsed first, in order
DeclaredRelations == SelectSeq(fs["schema.cmt"], IsRelationLine)

\* the first call parsed one model block with a fresh Parser
OneBlockParsed ==
    /\ parsed # <<>>
    /\ parsed[1].schema # <<>>
    /\ Len(parsed[1].schema[1]) = 1
    /\ Len(ModelLines(fs["schema.cmt"])) = 1

TerminalOps == {"All", "First", "Last", "Count", "Exists"}

\* C12: a terminal operation called while no database handle is configured
\* returns the "not initialized" condition and sends no query
C12_NotInitializedSendsNothing ==
    (call.op \in TerminalOps /\ GlobalDB = <<>>)
        => /\ call.err = ErrNotInitialized
           /\ call.sent = <<>>
           /\ call.out = <<>>
           /\ call.ret \in {NilRet, [kind |-> "int64", val |-> 0],
                             [kind |-> "bool", val |-> FALSE]}

C12_Witness ==
    /\ call.op = "Exists"
    /\ GlobalDB = <<>>
    /\ Len(call.before[1].Wheres) > 0
    /\ call.err = ErrNotInitialized

sLimitOne == <<"L","I","M","I","T"," ","1">>
\* the text sql holds LIMIT 1 as a whole clause: at its end or before OFFSET
HasLimitOne(sql) ==
    \/ HasSuffix(sql, <<" ">> \o sLimitOne)
    \/ Contains(sql, <<" ">> \o sLimitOne \o <<" ","O","F","F","S","E","T">>)

\* C13: First sends the builder's query with LIMIT 1 in it; for zero rows it
\* returns the "no rows" condition and no item, for a first row it returns
\* the decoded row
C13_FirstLimitOneOrNoRows ==
    (call.op = "First" /\ call.sent # <<>>)
        => /\ HasLimitOne(call.sent[1].sql)
           /\ call.sent[1]
                = buildSelectQueryFromQuery([call.before[1] EXCEPT !.LimitVal = <<1>>])
           /\ (~call.out[1].queryErr /\ call.out[1].rows = <<>> /\ ~call.out[1].iterErr)
                => (call.err = ErrNoRows /\ call.ret = NilRet)
           /\ (~call.out[1].queryErr /\ call.out[1].rows # <<>>
                /\ call.out[1].rows[1] = "ok")
                => (call.err = ErrNil /\ call.ret = [kind |-> "item", val |-> <<"item">>])

C13_Witness ==
    /\ call.op = "First"
    /\ call.sent # <<>>
    /\ call.before[1].LimitVal = <<10>>
    /\ call.out[1].rows = <<>>
    /\ ~call.out[1].queryErr
    /\ ~call.out[1].iterErr
    /\ call.err = ErrNoRows

\* the order-clauses Last leaves in a builder that held the clauses orders
OrdersOfLast(orders) ==
    IF orders = <<>> THEN <<[Field |-> sId, Direction |-> sDESC]>> ELSE orders

sOrderByIdDesc == <<"O","R","D","E","R"," ","B","Y"," ","i","d"," ","D","E","S","C">>

\* C14: Last adds the ordering id DESC exactly when the builder holds no
\* order-clause and leaves given order-clauses as they are; what it sends and
\* returns is then what First sends and returns on that builder
C14_LastDefaultOrderThenFirst ==
    call.op = "Last"
        => /\ query.Orders = OrdersOfLast(call.before[1].Orders)
           /\ call.sent # <<>>
                => /\ call.q[1].Orders = OrdersOfLast(call.before[1].Orders)
                   /\ call.before[1].Orders = <<>>
                        => Contains(call.sent[1].sql, sOrderByIdDesc \o <<" ","L","I","M","I","T"," ","1">>)
                   /\ call.before[1].Orders # <<>>
                        => Contains(call.sent[1].sql,
                                    <<"O","R","D","E","R"," ","B","Y"," ">>
                                    \o Join(OrderParts(call.before[1]), <<","," ">>)
                                    \o <<" ","L","I","M","I","T"," ","1">>)
                   /\ call.sent[1]
                        = buildSelectQueryFromQuery(
                              [call.before[1] EXCEPT
                                  !.Orders = OrdersOfLast(call.before[1].Orders),
                                  !.LimitVal = <<1>>])
                   /\ call.ret = FirstResult(call.out[1]).ret
                   /\ call.err = FirstResult(call.out[1]).err

C14_Witness ==
    /\ call.op = "Last"
    /\ call.sent # <<>>
    /\ call.before[1].Orders = <<>>
    /\ Len(call.before[1].Wheres) = 1
    /\ Contains(call.sent[1].sql, sOrderByIdDesc)
    /\ call.err = ErrNil

sSelectCount == <<"S","E","L","E","C","T"," ","C","O","U","N","T","(","*",")"," ","F","R","O","M"," ","u","s","e","r","s">>

\* C15: Count sends a query on the builder's table that projects COUNT(*),
\* keeps the builder's where-clauses in order and has no ORDER BY, LIMIT or
\* OFFSET; it leaves the builder's Query as it was; Exists returns true
\* exactly when the count is greater than zero
C15_CountProjectsAndKeepsWheres ==
    (call.op \in {"Count", "Exists"} /\ call.sent # <<>>)
        => /\ HasPrefix(call.sent[1].sql, sSelectCount)
           /\ call.q[1].Table = call.before[1].Table
           /\ call.q[1].Wheres = call.before[1].Wheres
           /\ call.sent[1] = buildSelectQueryFromQuery(
                                 [NewQueryExecutor(call.before[1].Table) EXCEPT
                                     !.Fields = <<sCountStar>>,
                                     !.Wheres = call.before[1].Wheres])
           /\ call.before[1].Wheres = <<>> => call.sent[1].sql = sSelectCount
           /\ ~Contains(call.sent[1].sql, <<"O","R","D","E","R"," ","B","Y">>)
           /\ ~Contains(call.sent[1].sql, <<"L","I","M","I","T">>)
           /\ ~Contains(call.sent[1].sql, <<"O","F","F","S","E","T">>)
           /\ query = call.before[1]
           /\ (call.op = "Count" /\ call.err = ErrNil)
                => call.ret = [kind |-> "int64", val |-> call.out[1].count]
           /\ call.op = "Exists"
                => call.ret = [kind |-> "bool",
                               val |-> call.err = ErrNil /\ call.out[1].count > 0]

C15_Witness ==
    /\ call.op = "Exists"
    /\ call.sent # <<>>
    /\ Len(call.before[1].Wheres) = 1
    /\ call.before[1].LimitVal = <<10>>
    /\ call.out[1].count = 2
    /\ call.ret = [kind |-> "bool", val |-> TRUE]

\* the number of where-clauses of q, among the first i, that bind their value
BoundUpTo(q, i) == Cardinality({j \in 1..i : q.Wheres[j].Operator # sIN})

\* the placeholder of the i-th where-clause of q, a bound one, in dialect d
PlaceholderText(d, q, i) ==
    IF d = "postgres" THEN <<"$">> \o Itoa(BoundUpTo(q, i)) ELSE <<"?">>

\* the text of the i-th where-clause of q in dialect d
ClauseText(d, q, i) ==
    q.Wheres[i].Field \o <<" ">>
    \o (IF q.Wheres[i].Not THEN <<"N","O","T"," ">> ELSE <<>>)
    \o q.Wheres[i].Operator \o <<" ">>
    \o (IF q.Wheres[i].Operator = sIN
        THEN FormatV(q.Wheres[i].Value) ELSE PlaceholderText(d, q, i))

WhereText(d, q) ==
    <<"W","H","E","R","E"," ">> \o Join([i \in 1..Len(q.Wheres) |-> ClauseText(d, q, i)], <<" ","A","N","D"," ">>)

\* the Query of scenario 2: table users, the filter (age, >, 18)
AgeQuery ==
    [NewQueryExecutor(sUsers) EXCEPT
        !.Wheres = <<[Field |-> <<"a","g","e">>, Operator |-> <<">">>,
                      Value |-> IntV(18), Not |-> FALSE]>>]

\* C16: under postgres the k-th bound where-clause is written $k, an IN
\* clause using up no number, and under mysql and sqlite every bound clause
\* is written ?; the filter (age, >, 18) on users compiles to
\* SELECT * FROM users WHERE age > $1 under postgres and to
\* SELECT * FROM users WHERE age > ? under sqlite, with the arguments [18]
C16_PlaceholderPerDialect ==
    call.op = "BuildQuery"
        => /\ call.q[1].Wheres # <<>>
                => Contains(call.ret.val.sql, WhereText(call.driver, call.q[1]))
           /\ call.q[1] = AgeQuery
                => /\ call.ret.val.args = <<IntV(18)>>
                   /\ call.ret.val.sql
                        = (IF call.driver = "postgres"
                           THEN <<"S","E","L","E","C","T"," ","*"," ","F","R","O","M"," ","u","s","e","r","s"," ","W","H","E","R","E"," ","a","g","e"," ",">"," ","$","1">>
                           ELSE <<"S","E","L","E","C","T"," ","*"," ","F","R","O","M"," ","u","s","e","r","s"," ","W","H","E","R","E"," ","a","g","e"," ",">"," ","?">>)

C16_Witness ==
    /\ call.op = "BuildQuery"
    /\ call.driver = "postgres"
    /\ Len(call.q[1].Wheres) = 3
    /\ call.q[1].Wheres[1].Operator # sIN
    /\ call.q[1].Wheres[2].Operator = sIN
    /\ call.q[1].Wheres[3].Operator # sIN
    /\ Contains(call.ret.val.sql, <<"$","2">>)

\* the statement of q in dialect d: the parts that are present, in order
StatementText(d, q) ==
    Join(<<<<"S","E","L","E","C","T"," ">> \o Join(q.Fields, <<","," ">>) \o <<" ","F","R","O","M"," ">> \o q.Table>>
         \o (IF q.Wheres # <<>> THEN <<WhereText(d, q)>> ELSE <<>>)
         \o (IF q.Orders # <<>>
             THEN <<<<"O","R","D","E","R"," ","B","Y"," ">>
                    \o Join([i \in 1..Len(q.Orders) |->
                                q.Orders[i].Field \o <<" ">> \o q.Orders[i].Direction],
                            <<","," ">>)>>
             ELSE <<>>)
         \o (IF q.LimitVal # <<>> THEN <<<<"L","I","M","I","T"," ">> \o Itoa(q.LimitVal[1])>> ELSE <<>>)
         \o (IF q.OffsetVal # <<>> THEN <<<<"O","F","F","S","E","T"," ">> \o Itoa(q.OffsetVal[1])>> ELSE <<>>),
         <<" ">>)

\* the Query of scenario 5: the negated filter (status, =, "archived")
ArchivedQuery ==
    [NewQueryExecutor(sUsers) EXCEPT
        !.Wheres = <<[Field |-> <<"s","t","a","t","u","s">>, Operator |-> <<"=">>,
                      Value |-> StrV(<<"a","r","c","h","i","v","e","d">>), Not |-> TRUE]>>]

\* C17: the compiled SQL is, joined by single spaces and in this order,
\* SELECT <fields> FROM <table>, WHERE with the clauses joined by AND iff
\* there is a where-clause (NOT before the operator of a negated clause),
\* ORDER BY iff there is an order-clause, LIMIT iff a limit is set, OFFSET
\* iff an offset is set; the negated filter compiles to status NOT = ?
C17_StatementLayout ==
    call.op = "BuildQuery"
        => /\ call.ret.val.sql = StatementText(call.driver, call.q[1])
           /\ (call.q[1] = ArchivedQuery /\ call.driver # "postgres")
                => call.ret.val.sql = <<"S","E","L","E","C","T"," ","*"," ","F","R","O","M"," ","u","s","e","r","s"," ","W","H","E","R","E"," ","s","t","a","t","u","s"," ","N","O","T"," ","="," ","?">>

C17_Witness ==
    /\ call.op = "BuildQuery"
    /\ call.driver = "sqlite"
    /\ Len(call.q[1].Wheres) = 1
    /\ call.q[1].Wheres[1].Not
    /\ call.q[1].Orders # <<>>
    /\ call.q[1].LimitVal # <<>>
    /\ call.ret.val.sql
         = <<"S","E","L","E","C","T"," ","*"," ","F","R","O","M"," ","u","s","e","r","s"," ","W","H","E","R","E"," ","s","t","a","t","u","s"," ","N","O","T"," ","="," ","?"," ","O","R","D","E","R"," ","B","Y"," ","n","a","m","e"," ","A","S","C"," ","L","I","M","I","T"," ","1","0">>

\* the index of the k-th where-clause of q that binds its value
BoundIndex(q, k) ==
    CHOOSE i \in 1..Len(q.Wheres) :
        q.Wheres[i].Operator # sIN /\ BoundUpTo(q, i) = k

\* the values of the where-clauses of q whose operator is not IN, in order
BoundValues(q) ==
    [k \in 1..BoundUpTo(q, Len(q.Wheres)) |-> q.Wheres[BoundIndex(q, k)].Value]

\* the text of an IN clause: the field, the operator, the value itself
SplicedText(where) ==
    where.Field \o <<" ">> \o (IF where.Not THEN <<"N","O","T"," ","I","N"," ">> ELSE <<"I","N"," ">>)
    \o FormatV(where.Value)

\* compiled is what a compiler returned for q: every IN clause stands in the
\* text with its value, and the arguments are the values of the other clauses
InSplicedOthersBound(q, compiled) ==
    /\ compiled.args = BoundValues(q)
    /\ \A i \in 1..Len(q.Wheres) :
            q.Wheres[i].Operator = sIN
                => Contains(compiled.sql, SplicedText(q.Wheres[i]))

\* C18: in the compiler of every driver and in the executor's own compiler,
\* a where-clause whose operator is IN has its value written into the SQL
\* text as <field> [NOT ]IN <value> and adds nothing to the arguments, and
\* every other where-clause adds exactly one argument, its value
C18_InValueSplicedNotBound ==
    call.op = "BuildQuery"
        => /\ InSplicedOthersBound(call.q[1], call.ret.val)
           /\ InSplicedOthersBound(call.q[1], buildSelectQueryFromQuery(call.q[1]))

C18_Witness ==
    /\ call.op = "BuildQuery"
    /\ call.driver = "mysql"
    /\ Len(call.q[1].Wheres) = 2
    /\ call.q[1].Wheres[1].Operator = sIN
    /\ call.q[1].Wheres[1].Not
    /\ call.q[1].Wheres[2].Operator # sIN
    /\ Len(call.ret.val.args) = 1

\* the position of a dialect in the triples (postgres, mysql, sqlite)
DialectIndex(d) == IF d = "postgres" THEN 1 ELSE IF d = "mysql" THEN 2 ELSE 3

\* the mapping table of the Type Mapper: abstract type to the column types
TypeTable(t) ==
    CASE t = <<"I","n","t">> -> <<<<"I","N","T","E","G","E","R">>, <<"I","N","T">>, <<"I","N","T","E","G","E","R">>>>
      [] t = <<"I","n","t","6","4">> -> <<<<"B","I","G","I","N","T">>, <<"B","I","G","I","N","T">>, <<"I","N","T","E","G","E","R">>>>
      [] t = <<"S","t","r","i","n","g">> -> <<<<"V","A","R","C","H","A","R","(","2","5","5",")">>, <<"V","A","R","C","H","A","R","(","2","5","5",")">>, <<"T","E","X","T">>>>
      [] t = <<"B","o","o","l","e","a","n">> -> <<<<"B","O","O","L","E","A","N">>, <<"B","O","O","L","E","A","N">>, <<"I","N","T","E","G","E","R">>>>
      [] t = <<"F","l","o","a","t">> -> <<<<"D","O","U","B","L","E"," ","P","R","E","C","I","S","I","O","N">>, <<"D","O","U","B","L","E">>, <<"R","E","A","L">>>>
      [] t = <<"D","a","t","e","T","i","m","e">> -> <<<<"T","I","M","E","S","T","A","M","P">>, <<"T","I","M","E","S","T","A","M","P">>, <<"D","A","T","E","T","I","M","E">>>>
      [] OTHER -> <<<<"T","E","X","T">>, <<"T","E","X","T">>, <<"T","E","X","T">>>>

AbstractTypes ==
    {<<"I","n","t">>, <<"I","n","t","6","4">>, <<"S","t","r","i","n","g">>, <<"B","o","o","l","e","a","n">>, <<"F","l","o","a","t">>, <<"D","a","t","e","T","i","m","e">>}

\* the types the table speaks of: the abstract types and the types that are
\* the name of no Go type the mapper knows as well
InTypeTable(t) ==
    t \notin {<<"i","n","t">>, <<"i","n","t","6","4">>, <<"s","t","r","i","n","g">>, <<"b","o","o","l">>, <<"f","l","o","a","t","6","4">>, <<"t","i","m","e",".","T","i","m","e">>}

\* the column of field, written by driver d, starts with the name and type
TypedAsInTable(d, field, column) ==
    InTypeTable(field.Type)
        => /\ GetSQLType(field.Type, d) = TypeTable(field.Type)[DialectIndex(d)]
           /\ GetSQLType(field.Type \o <<"?">>, d) = TypeTable(field.Type)[DialectIndex(d)]
           /\ ~ (field.Primary /\ field.AutoGen)
                => HasPrefix(column \o <<" ">>,
                             field.Name \o <<" ">>
                             \o TypeTable(field.Type)[DialectIndex(d)] \o <<" ">>)

\* C19: GetSQLType maps Int to (INTEGER, INT, INTEGER), Int64 to (BIGINT,
\* BIGINT, INTEGER), String to (VARCHAR(255), VARCHAR(255), TEXT), Boolean to
\* (BOOLEAN, BOOLEAN, INTEGER), Float to (DOUBLE PRECISION, DOUBLE, REAL),
\* DateTime to (TIMESTAMP, TIMESTAMP, DATETIME) and any other type to TEXT,
\* under (postgres, mysql, sqlite), with or without a trailing question mark
C19_TypeTable ==
    ddl.model # <<>>
        => \A i \in 1..Len(ddl.model[1].Fields) :
              TypedAsInTable(ddl.driver, ddl.model[1].Fields[i], ddl.columns[i])

\* a table has been generated from a field of type Int64
C19_Int64Column ==
    /\ ddl.model # <<>>
    /\ \E i \in 1..Len(ddl.model[1].Fields) : ddl.model[1].Fields[i].Type = <<"I","n","t","6","4">>

\* the positions of text at which token starts
Occurrences(text, token) ==
    { i \in 1..(Len(text) - Len(token) + 1) : SubSeq(text, i, i + Len(token) - 1) = token }

\* token stands in text once if present is true, and not at all otherwise
OnceIff(text, token, present) ==
    Cardinality(Occurrences(text, token)) = (IF present THEN 1 ELSE 0)

\* every occurrence of first in text starts before every occurrence of second
AllBefore(text, first, second) ==
    \A i \in Occurrences(text, first), j \in Occurrences(text, second) : i < j

kPrimaryKey == <<" ","P","R","I","M","A","R","Y"," ","K","E","Y">>
kUnique == <<" ","U","N","I","Q","U","E">>
kNotNull == <<" ","N","O","T"," ","N","U","L","L">>
kDefault == <<" ","D","E","F","A","U","L","T"," ">>
ConstraintTokens == <<kPrimaryKey, kUnique, kNotNull, kDefault>>

\* column is the definition of field: the name, a type, then the constraints
\* the flags of the field call for, each once and in the order of the tokens
ConstraintsMatchFlags(field, column) ==
    /\ HasPrefix(column, field.Name \o <<" ">>)
    /\ OnceIff(column, kPrimaryKey, field.Primary)
    /\ OnceIff(column, kUnique, field.Unique /\ ~ field.Primary)
    /\ OnceIff(column, kNotNull, ~ field.Optional /\ ~ field.Primary)
    /\ OnceIff(column, kDefault, field.Default.kind # "nil")
    /\ \A a, b \in 1..Len(ConstraintTokens) :
            a < b => AllBefore(column, ConstraintTokens[a], ConstraintTokens[b])
    /\ \A a \in 1..Len(ConstraintTokens) :
            \A i \in Occurrences(column, ConstraintTokens[a]) : i > Len(field.Name) + 1

\* C20: in every dialect the column definition of a field holds PRIMARY KEY
\* iff the field is primary, UNIQUE iff it is unique and not primary, NOT NULL
\* iff it is neither optional nor primary and a DEFAULT clause iff the field
\* has a default, each at most once, after the name and the type and in the
\* order PRIMARY KEY, UNIQUE, NOT NULL, DEFAULT
C20_ConstraintsMatchFlags ==
    ddl.model # <<>>
        => \A i \in 1..Len(ddl.model[1].Fields) :
              ConstraintsMatchFlags(ddl.model[1].Fields[i], ddl.columns[i])

C20_Witness ==
    /\ ddl.driver = "sqlite"
    /\ ddl.model # <<>>
    /\ Len(ddl.model[1].Fields) = 2
    /\ ddl.model[1].Fields[1].Primary
    /\ ddl.model[1].Fields[1].Unique
    /\ ddl.columns[1] = <<"k","e","y"," ","T","E","X","T"," ","P","R","I","M","A","R","Y"," ","K","E","Y">>
    /\ ddl.columns[2] = <<"r","o","l","e"," ","T","E","X","T"," ","U","N","I","Q","U","E"," ","N","O","T"," ","N","U","L","L"," ","D","E","F","A","U","L","T"," ","'","u","s","e","r","'">>

\* the declarations of the schema texts whose type carries the optional
\* marker, with the name and the base type they declare
OptionalCases ==
    { [line |-> lName, name |-> <<"n","a","m","e">>, type |-> <<"S","t","r","i","n","g">>],
      [line |-> lNick, name |-> <<"n","i","c","k">>, type |-> <<"S","t","r","i","n","g">>],
      [line |-> lScore, name |-> <<"s","c","o","r","e">>, type |-> <<"F","l","o","a","t">>],
      [line |-> lSeq, name |-> <<"s","e","q">>, type |-> <<"I","n","t">>] }

\* C21: a field declared with a trailing question mark on its type parses to
\* a FieldSchema with the base type and optional set, and its column, in
\* every dialect, holds no NOT NULL
C21_OptionalFieldIsNullable ==
    \A c \in OptionalCases :
        DeclaredIn(c.line) =>
            \A i \in FieldsNamed(c.name) :
                /\ ddl.model[1].Fields[i].Type = c.type
                /\ ddl.model[1].Fields[i].Optional
                /\ ~ Contains(ddl.columns[i], <<"N","O","T"," ","N","U","L","L">>)

C21_Witness ==
    /\ DeclaredIn(lName)
    /\ ddl.driver = "mysql"
    /\ \E i \in FieldsNamed(<<"n","a","m","e">>) :
          /\ ddl.model[1].Fields[i].Optional
          /\ ddl.columns[i] = <<"n","a","m","e"," ","V","A","R","C","H","A","R","(","2","5","5",")">>

\* the declarations of the schema texts with a boolean default
BoolDefaultCases ==
    { [line |-> lActive, name |-> <<"a","c","t","i","v","e">>, value |-> TRUE],
      [line |-> lHidden, name |-> <<"h","i","d","d","e","n">>, value |-> FALSE] }

\* the DEFAULT clause of a boolean default as the code writes it
BoolLiteral(d, value) ==
    IF d = "sqlite" THEN (IF value THEN <<" ","D","E","F","A","U","L","T"," ","1">> ELSE <<" ","D","E","F","A","U","L","T"," ","0">>)
    ELSE (IF value THEN <<" ","D","E","F","A","U","L","T"," ","t","r","u","e">> ELSE <<" ","D","E","F","A","U","L","T"," ","f","a","l","s","e">>)

\* the DEFAULT clause of a boolean default with the keywords in upper case
BoolLiteralUpper(d, value) ==
    IF d = "sqlite" THEN (IF value THEN <<" ","D","E","F","A","U","L","T"," ","1">> ELSE <<" ","D","E","F","A","U","L","T"," ","0">>)
    ELSE (IF value THEN <<" ","D","E","F","A","U","L","T"," ","T","R","U","E">> ELSE <<" ","D","E","F","A","U","L","T"," ","F","A","L","S","E">>)

\* C22 (amended): a boolean default is written in the DEFAULT clause as true
\* or false, in lower case, under postgres and mysql and as 1 or 0 under
\* sqlite
C22_BoolDefaultLiteral ==
    \A c \in BoolDefaultCases :
        DeclaredIn(c.line) =>
            \A i \in FieldsNamed(c.name) :
                /\ ddl.model[1].Fields[i].Default = BoolD(c.value)
                /\ HasSuffix(ddl.columns[i], BoolLiteral(ddl.driver, c.value))

\* C22 as stated: a boolean default is written as TRUE or FALSE under
\* postgres and mysql and as 1 or 0 under sqlite
C22_BoolDefaultUpperCase ==
    \A c \in BoolDefaultCases :
        DeclaredIn(c.line) =>
            \A i \in FieldsNamed(c.name) :
                HasSuffix(ddl.columns[i], BoolLiteralUpper(ddl.driver, c.value))

C22_Witness ==
    /\ DeclaredIn(lActive)
    /\ DeclaredIn(lHidden)
    /\ ddl.driver = "sqlite"
    /\ Len(ddl.columns) = 2
    /\ ddl.columns[1] = <<"a","c","t","i","v","e"," ","I","N","T","E","G","E","R"," ","N","O","T"," ","N","U","L","L"," ","D","E","F","A","U","L","T"," ","1">>
    /\ ddl.columns[2] = <<"h","i","d","d","e","n"," ","I","N","T","E","G","E","R"," ","N","O","T"," ","N","U","L","L"," ","D","E","F","A","U","L","T"," ","0">>

\* the declarations of the schema texts with a default that is neither a
\* boolean nor now(): the value written, and whether it is a number
ScalarDefaultCases ==
    { [line |-> lAge, name |-> <<"a","g","e">>, value |-> <<"0">>, numeric |-> TRUE],
      [line |-> lPrice, name |-> <<"p","r","i","c","e">>, value |-> <<"9",".","5">>, numeric |-> TRUE],
      [line |-> lSeq, name |-> <<"s","e","q">>, value |-> <<"1">>, numeric |-> TRUE],
      [line |-> lRole, name |-> <<"r","o","l","e">>, value |-> <<"u","s","e","r">>, numeric |-> FALSE],
      [line |-> lLang, name |-> <<"l","a","n","g">>, value |-> <<"e","n">>, numeric |-> FALSE] }

\* the DEFAULT clause of a scalar default: a number bare, a string quoted
ScalarLiteral(c) ==
    IF c.numeric THEN <<" ","D","E","F","A","U","L","T"," ">> \o c.value
    ELSE <<" ","D","E","F","A","U","L","T"," ","'">> \o c.value \o <<"'">>

\* C23: in every dialect the column of a field declared with a numeric
\* default ends with DEFAULT and the number unquoted (DEFAULT 0), and the
\* column of a field with any other default that is neither a boolean nor
\* now() ends with DEFAULT and the value as a quoted string literal
C23_NumericDefaultUnquoted ==
    \A c \in ScalarDefaultCases :
        DeclaredIn(c.line) =>
            \A i \in FieldsNamed(c.name) :
                HasSuffix(ddl.columns[i], ScalarLiteral(c))

\* the type and what follows it at once in the column of a field that is
\* primary and auto-generated
AutoColumnType(d) ==
    IF d = "postgres" THEN <<"S","E","R","I","A","L"," ","P","R","I","M","A","R","Y"," ","K","E","Y">>
    ELSE IF d = "mysql" THEN <<"I","N","T"," ","A","U","T","O","_","I","N","C","R","E","M","E","N","T"," ","P","R","I","M","A","R","Y"," ","K","E","Y">>
    ELSE <<"I","N","T","E","G","E","R"," ","P","R","I","M","A","R","Y"," ","K","E","Y"," ","A","U","T","O","I","N","C","R","E","M","E","N","T">>

AutoWords == {<<"S","E","R","I","A","L">>, <<"A","U","T","O","_","I","N","C","R","E","M","E","N","T">>, <<"A","U","T","O","I","N","C","R","E","M","E","N","T">>}

\* column, written by driver d for field, starts with the name and the type
\* the claim gives
ColumnTypeAsClaimed(d, field, column) ==
    IF field.Primary /\ field.AutoGen
    THEN HasPrefix(column \o <<" ">>, field.Name \o <<" ">> \o AutoColumnType(d) \o <<" ">>)
    ELSE /\ HasPrefix(column \o <<" ">>,
                      field.Name \o <<" ">> \o GetSQLType(field.Type, d) \o <<" ">>)
         /\ \A w \in AutoWords : ~ Contains(column, w)

sEngine == <<" ","E","N","G","I","N","E","=","I","n","n","o","D","B"," ","D","E","F","A","U","L","T"," ","C","H","A","R","S","E","T","=","u","t","f","8","m","b","4">>
sNewline == <<"\n">>

\* the statement of a table: the columns, one to a line, between the brackets
TableStatement(d, table, columns) ==
    <<"C","R","E","A","T","E"," ","T","A","B","L","E"," ","I","F"," ","N","O","T"," ","E","X","I","S","T","S"," ">> \o table \o <<" ","(">> \o sNewline \o <<" "," ">>
    \o Join(columns, <<",">> \o sNewline \o <<" "," ">>) \o sNewline \o <<")">>
    \o (IF d = "mysql" THEN sEngine ELSE <<>>)

\* C24: the column of a field that is primary and auto-generated has the type
\* SERIAL (postgres), INTEGER followed by PRIMARY KEY AUTOINCREMENT (sqlite)
\* or INT AUTO_INCREMENT (mysql) whatever type is declared, and any other
\* column has the type GetSQLType gives; CreateTable writes one column per
\* field, in the order of the fields, inside CREATE TABLE IF NOT EXISTS
\* <table> (...), and the mysql statement alone ends with the ENGINE clause
C24_AutoTypeAndTableLayout ==
    ddl.model # <<>>
        => /\ Len(ddl.columns) = Len(ddl.model[1].Fields)
           /\ \A i \in 1..Len(ddl.columns) :
                 ColumnTypeAsClaimed(ddl.driver, ddl.model[1].Fields[i], ddl.columns[i])
           /\ ddl.sql = TableStatement(ddl.driver, ddl.model[1].TableName, ddl.columns)
           /\ HasSuffix(ddl.sql, sEngine) <=> ddl.driver = "mysql"

C24_Witness ==
    /\ ddl.driver = "mysql"
    /\ fs["schema.cmt"] = <<lModelUser, lUid, lEmail, lClose>>
    /\ ddl.sql = <<"C","R","E","A","T","E"," ","T","A","B","L","E"," ","I","F"," ","N","O","T"," ","E","X","I","S","T","S"," ","u","s","e","r","s"," ","(">> \o sNewline
                 \o <<" "," ","u","i","d"," ","I","N","T"," ","A","U","T","O","_","I","N","C","R","E","M","E","N","T"," ","P","R","I","M","A","R","Y"," ","K","E","Y",",">> \o sNewline
                 \o <<" "," ","e","m","a","i","l"," ","V","A","R","C","H","A","R","(","2","5","5",")"," ","U","N","I","Q","U","E"," ","N","O","T"," ","N","U","L","L">> \o sNewline
                 \o <<")">> \o sEngine

\* no two fields of the model share a name
FieldNamesUnique(model) ==
    \A i, j \in 1..Len(model.Fields) :
        model.Fields[i].Name = model.Fields[j].Name => i = j

\* C25: in every ModelSchema a ParseFile call returns, no two FieldSchema
\* entries have the same name
C25_FieldNamesUnique ==
    \A c \in 1..Len(parsed) :
        parsed[c].schema # <<>>
            => \A k \in 1..Len(parsed[c].schema[1]) :
                  FieldNamesUnique(parsed[c].schema[1][k])

\* what ParseFile returns for the file when no other call runs on the Parser
\* meanwhile, the Parser holding the models base when the call begins
ParseAlone(base, filename) ==
    IF filename \notin DOMAIN fs THEN [models |-> base, schema |-> <<>>, err |-> sErrOpen]
    ELSE ParseResult(ScanLoop(fs[filename], 1,
                              [models |-> base, currentModel |-> <<>>,
                               inModel |-> FALSE, err |-> <<>>]))

\* C26: a ParseFile call that runs while other callers call ParseFile on the
\* same Parser returns the Schema and the error it returns when it runs alone
\* on the Parser as it found it
C26_ConcurrentParseAsAlone ==
    \A t \in 1..MaxCallers :
        running[t].pc = "done"
            => /\ running[t].schema = ParseAlone(running[t].base, running[t].file).schema
               /\ running[t].err = ParseAlone(running[t].base, running[t].file).err

\* model names and the table names the naming rule gives them
TableNameCases ==
    { [model |-> <<"U","s","e","r">>, table |-> <<"u","s","e","r","s">>],
      [model |-> <<"C","a","t","e","g","o","r","y">>, table |-> <<"c","a","t","e","g","o","r","i","e","s">>],
      [model |-> <<"U","s","e","r","P","o","s","t">>, table |-> <<"u","s","e","r","_","p","o","s","t","s">>],
      [model |-> <<"B","o","x">>, table |-> <<"b","o","x","e","s">>],
      [model |-> <<"Q","u","i","z">>, table |-> <<"q","u","i","z","e","s">>],
      [model |-> <<"M","a","t","c","h">>, table |-> <<"m","a","t","c","h","e","s">>],
      [model |-> <<"D","i","s","h">>, table |-> <<"d","i","s","h","e","s">>],
      [model |-> <<"C","l","a","s","s">>, table |-> <<"c","l","a","s","s","e","s">>],
      [model |-> <<"D","a","y">>, table |-> <<"d","a","i","e","s">>],
      [model |-> <<"A","P","I","K","e","y">>, table |-> <<"a","_","p","_","i","_","k","e","i","e","s">>],
      [model |-> <<"P","o","s","t">>, table |-> <<"p","o","s","t","s">>],
      [model |-> <<"p","o","s","t">>, table |-> <<"p","o","s","t","s">>] }

\* the model carries the table name the rule gives its name
NamedAsRule(model) ==
    \A c \in TableNameCases : model.Name = c.model => model.TableName = c.table

\* C27: the table name of a model is its name in snake_case (lower case, an
\* underscore before every capital but a leading one), made plural: a
\* trailing y becomes ies, es follows a trailing s, x, z, ch or sh, and s
\* follows anything else; the generated statement creates that table
C27_TableNameIsPluralSnake ==
    /\ \A c \in 1..Len(parsed) :
          parsed[c].schema # <<>>
              => \A k \in 1..Len(parsed[c].schema[1]) : NamedAsRule(parsed[c].schema[1][k])
    /\ ddl.model # <<>>
          => \A c \in TableNameCases :
                ddl.model[1].Name = c.model
                    => HasPrefix(ddl.sql, <<"C","R","E","A","T","E"," ","T","A","B","L","E"," ","I","F"," ","N","O","T"," ","E","X","I","S","T","S"," ">> \o c.table \o <<" ","(">>)

C27_Witness ==
    /\ ddl.model # <<>>
    /\ ddl.model[1].Name = <<"U","s","e","r","P","o","s","t">>
    /\ ddl.model[1].TableName = <<"u","s","e","r","_","p","o","s","t","s">>

\* C28: the SQL a terminal operation sends to the collaborator has as many
\* ? placeholders as there are arguments sent with it, the placeholders that
\* WhereIn wrote for its values included
C28_SentPlaceholdersMatchArgs ==
    call.sent # <<>>
        => Cardinality(PlaceholderAt("sqlite", call.sent[1].sql)) = Len(call.sent[1].args)

\* C29: All, First, Last, Count or Exists that fails with the 'not
\* initialized' condition leaves the builder's Query as it was before the
\* call
C29_NotInitializedKeepsQuery ==
    (call.op \in TerminalOps /\ call.err = ErrNotInitialized)
        => query = call.before[1]

(***************************************************************************)
(* The frame of the builder calls.                                         *)
(***************************************************************************)
\* the step changes no component of the Query but the one named
OnlyChanges(component) ==
    \A c \in DOMAIN query \ {component} : query'[c] = query[c]

\* the step appends the clause w to the where-clauses and changes nothing else
AppendsWhere(w) == query'.Wheres = query.Wheres \o <<w>> /\ OnlyChanges("Wheres")

\* the ? group for n values
GroupOf(n) ==
    CASE n = 0 -> <<"(",")">> [] n = 1 -> <<"(","?",")">> [] n = 2 -> <<"(","?",",","?",")">> [] n = 3 -> <<"(","?",",","?",",","?",")">>

\* the directions of the OrderBy inputs in upper case
UpperDirection(direction) ==
    CASE direction \in {<<"a","s","c">>, <<"A","S","C">>} -> <<"A","S","C">>
      [] direction \in {<<"d","e","s","c">>, <<"D","E","S","C">>} -> <<"D","E","S","C">>

\* what each builder call does to the Query, component by component
BuilderFrame ==
    /\ \A in \in WhereInputs :
          Where(in) => AppendsWhere([Field |-> in.field, Operator |-> in.operator,
                                     Value |-> in.value, Not |-> FALSE])
    /\ \A in \in WhereNotInputs :
          WhereNot(in) => AppendsWhere([Field |-> in.field, Operator |-> in.operator,
                                        Value |-> in.value, Not |-> TRUE])
    /\ \A in \in WhereInInputs :
          WhereIn(in) => AppendsWhere([Field |-> in.field, Operator |-> <<"I","N">>,
                                       Value |-> StrV(GroupOf(Len(in.values))),
                                       Not |-> FALSE])
    /\ \A in \in OrderByInputs :
          OrderBy(in) =>
              /\ query'.Orders = query.Orders
                    \o <<[Field |-> in.field, Direction |-> UpperDirection(in.direction)]>>
              /\ OnlyChanges("Orders")
    /\ \A n \in LimitInputs :
          Limit(n) => query'.LimitVal = <<n>> /\ OnlyChanges("LimitVal")
    /\ \A n \in OffsetInputs :
          Offset(n) => query'.OffsetVal = <<n>> /\ OnlyChanges("OffsetVal")
    /\ \A fields \in SelectInputs :
          Select(fields) => query'.Fields = fields /\ OnlyChanges("Fields")
    /\ \A relations \in IncludeInputs :
          Include(relations) =>
              query'.Includes = query.Includes \o relations /\ OnlyChanges("Includes")
    /\ \A d \in Dialects : CallBuildQuery(d) => query' = query

\* the Query of a new QueryExecutor: the table, the projection * and nothing else
FreshQuery ==
    /\ query.Table = sUsers
    /\ query.Fields = <<<<"*">>>>
    /\ query.Wheres = <<>> /\ query.Orders = <<>> /\ query.Includes = <<>>
    /\ query.LimitVal = <<>> /\ query.OffsetVal = <<>>

\* C30: the Query of a new QueryExecutor has the projection * and no clause,
\* limit or offset; Where, WhereNot and WhereIn append their clause to the
\* where-clauses (negated only by WhereNot), OrderBy appends its clause with
\* the direction in upper case, Limit and Offset store their value over the
\* earlier one, Select replaces the projection, and each call leaves every
\* other component of the Query as it was
C30_BuilderCallsFrame == FreshQuery /\ [][BuilderFrame]_vars

C30_Witness ==
    /\ Len(query.Wheres) = 2
    /\ ~ query.Wheres[1].Not
    /\ query.Wheres[2].Not
    /\ query.Orders = <<[Field |-> <<"n","a","m","e">>, Direction |-> <<"A","S","C">>]>>
    /\ query.LimitVal = <<>>
====
